---- MODULE Spec2Model ----
(***************************************************************************)
(* Model of the replicate-rs client: the JSON request path of HttpClient   *)
(* (execute_request behind the retry middleware built by                   *)
(* build_client_with_config) and PredictionsApi::wait_for_completion,      *)
(* whose status fetches are GET requests on that same path.                *)
(*                                                                         *)
(* Time is counted in abstract ticks since the current wait started.       *)
(* tokio::time::interval panics on a zero period, so the model covers the  *)
(* non-zero poll intervals.                                                *)
(***************************************************************************)
EXTENDS Integers, Sequences, FiniteSets, TLC

\* ---- bounds of the model ----
MaxRetriesBound == 1    \* largest max_retries of the transport a wait runs on
MaxRetriesRequest == 3  \* largest max_retries of the transport of RetrySpec
MaxTime == 3            \* ticks of wait time explored
MaxDur == 1             \* largest max_duration passed to a wait
MaxRetriesStatus == 1   \* largest max_retries of the transport of StatusSpec
MaxRetriesBackoff == 2  \* largest max_retries of the transport of BackoffSpec
MaxRetriesConfig == 1   \* largest max_retries passed to a configure call
MaxBuilderCalls == 3     \* calls made on one PredictionBuilder before send
MaxBytes == 2           \* most bytes of the byte strings enumerated as file content

\* ---- values ----
NoneS == [some |-> FALSE, v |-> ""]
SomeS(s) == [some |-> TRUE, v |-> s]
NoneD == [some |-> FALSE, v |-> 0]
SomeD(d) == [some |-> TRUE, v |-> d]

\* PredictionStatus (models/prediction.rs)
PredictionStatus == {"starting", "processing", "succeeded", "failed", "canceled"}

Ids == {"p1", "p2"}

\* The fields of Prediction the wait loop reads or returns.
Prediction ==
    {[id |-> i, status |-> st, error |-> d[1], logs |-> d[2]] :
        i \in Ids, st \in PredictionStatus,
        d \in {<<NoneS, NoneS>>, <<SomeS("boom"), SomeS("log")>>}}

NoPrediction == [id |-> "", status |-> "none", error |-> NoneS, logs |-> NoneS]

\* A 2xx body that does not deserialize into a Prediction.
Malformed == [id |-> "", status |-> "malformed", error |-> NoneS, logs |-> NoneS]

Bodies == Prediction \cup {Malformed}

\* Outcome of one HTTP attempt: a response with a status code and a body, or
\* a failure of the attempt itself (no response: connection failure).
ErrorBodies == {"e1", "e2"}

Response(code, body, text) == [kind |-> "status", code |-> code, body |-> body, text |-> text]
Failure(kind) == [kind |-> kind, code |-> 0, body |-> NoPrediction, text |-> ""]

\* The requests of the model: POST /v1/predictions and GET /v1/predictions/{id}.
Create == [method |-> "POST", id |-> ""]
Get(id) == [method |-> "GET", id |-> id]
NoRequest == [method |-> "", id |-> ""]

\* What the service can answer to a request: a 200 with a malformed body or
\* with a prediction (of the requested id, for a GET), an error status of
\* codes with a body text, or no response at all (one of failures).
ServiceOutcomes(req, codes, failures) ==
    {Response(200, b, "") : b \in {p \in Prediction : req.method = "GET" => p.id = req.id}}
    \cup {Response(200, Malformed, "")}
    \cup {Response(c, NoPrediction, "e1") : c \in codes}
    \cup {Response(422, NoPrediction, t) : t \in ErrorBodies}
    \cup {Failure(f) : f \in failures}

\* The outcomes explored for a request of the caller.
Outcomes(req) == ServiceOutcomes(req, {401, 404, 429, 500, 503}, {"network", "timeout"})

\* The outcomes explored where the status decides: every class of status the
\* service answers with (200, 422 and the codes below) and both send failures.
StatusCodes == {400, 401, 402, 403, 404, 408, 409, 429, 500, 503}
StatusOutcomes(req) == ServiceOutcomes(req, StatusCodes, {"network", "timeout"})

\* The outcomes explored where the backoff decides: one transient status.
BackoffOutcomes(req) == ServiceOutcomes(req, {503}, {})

\* Response texts of the files endpoint: the JSON of a File, a JSON error
\* with a "detail" string, a JSON value without it, and text that is not JSON.
FileJson == "{id:f1,urls:{get:u1}}"
FileNoUrlJson == "{id:f1,urls:{}}"
DetailJson == "{detail:d1}"
EmptyJson == "{}"
PlainText == "e1"

UploadCodes == {401, 402, 403, 404, 422, 429, 503}

\* What the service can answer to a multipart upload: a 201 whose text is a
\* File or not, an error status of codes with one of the texts, a connection
\* failure, or, on a client that has a timeout set, a timeout.
UploadOutcomes(codes, timeouts) ==
    {Response(201, NoPrediction, t) : t \in {FileJson, PlainText}}
    \cup {Response(c, NoPrediction, t) : c \in codes, t \in {DetailJson, EmptyJson, PlainText}}
    \cup {Failure("network")}
    \cup (IF timeouts.connect_timeout.some \/ timeouts.request_timeout.some
          THEN {Failure("timeout")} ELSE {})

\* The outcomes explored where the configuration decides: one success, one
\* status that is not retried, one that is, a connection failure and, on a
\* client that has a timeout set, a timeout.
ConfigOutcomes(timeouts) ==
    {Response(200, [id |-> "p1", status |-> "starting", error |-> NoneS, logs |-> NoneS], "")}
    \cup {Response(c, NoPrediction, PlainText) : c \in {404, 503}}
    \cup {Failure("network")}
    \cup (IF timeouts.connect_timeout.some \/ timeouts.request_timeout.some
          THEN {Failure("timeout")} ELSE {})

\* The outcomes explored while a wait is running.
WaitOutcomes(req) == ServiceOutcomes(req, {401, 404, 429, 503}, {"network"})

\* ---- Error (error.rs) ----
MkError(kind, status, message, detail, pid, emsg, logs, dur) ==
    [kind |-> kind, status |-> status, message |-> message, detail |-> detail,
     prediction_id |-> pid, error_message |-> emsg, logs |-> logs, duration |-> dur]

NoError == MkError("none", 0, "", NoneS, "", NoneS, NoneS, 0)

api_error(status, message) ==
    MkError("Api", status, message, NoneS, "", NoneS, NoneS, 0)

api_error_with_detail(status, message, detail) ==
    MkError("Api", status, message, SomeS(detail), "", NoneS, NoneS, 0)

auth_error(message) ==
    MkError("Auth", 0, message, NoneS, "", NoneS, NoneS, 0)

\* model_execution with the message and the logs exchanged.
model_execution_Swapped(prediction_id, error_message, logs) ==
    MkError("ModelExecution", 0, "", NoneS, prediction_id, logs, error_message, 0)

model_execution(prediction_id, error_message, logs) ==
    MkError("ModelExecution", 0, "", NoneS, prediction_id, error_message, logs, 0)

\* The timeout message without the configured duration.
TimeoutError_NoDuration(id, duration) ==
    MkError("Timeout", 0, "did not complete within", NoneS, id, NoneS, NoneS, 0)

\* Error::Timeout(format!("Prediction {} did not complete within {:?}", id, duration))
TimeoutError(id, duration) ==
    MkError("Timeout", 0, "did not complete within", NoneS, id, NoneS, NoneS, duration)

\* Error::HttpMiddleware: the send itself failed; message keeps the flavour of
\* the failed attempt.
HttpMiddlewareError(kind) ==
    MkError("HttpMiddleware", 0, kind, NoneS, "", NoneS, NoneS, 0)

\* Error::Http: response.json() could not decode the body.
HttpDecodeError ==
    MkError("Http", 0, "decode", NoneS, "", NoneS, NoneS, 0)

to_replicate_error(status, body) ==
    CASE status = 401 -> auth_error("Invalid API token")
      [] status = 402 -> auth_error("Insufficient credits")
      [] status = 403 -> auth_error("Forbidden")
      [] status = 404 -> api_error(404, "Resource not found")
      [] status = 422 -> api_error_with_detail(422, "Validation error", body)
      [] status = 429 -> api_error(429, "Rate limit exceeded")
      [] status \in 500..599 -> api_error(status, "Server error")
      [] OTHER -> api_error(status, body)

\* Error::Http from a failed send of the plain reqwest client.
HttpSendError(kind) ==
    MkError("Http", 0, kind, NoneS, "", NoneS, NoneS, 0)

\* Error::Json: serde_json::from_str could not decode the text.
JsonError ==
    MkError("Json", 0, "decode", NoneS, "", NoneS, NoneS, 0)

Ok(p) == [ok |-> TRUE, value |-> p, err |-> NoError]
Err(e) == [ok |-> FALSE, value |-> NoPrediction, err |-> e]
NoResult == [ok |-> FALSE, value |-> NoPrediction, err |-> NoError]

\* Result<File>
\* File: its id and urls.get("get"), the retrieval URL when the record has one.
File == [id |-> "f1", get |-> SomeS("https://api.replicate.com/v1/files/f1")]
FileNoUrl == [id |-> "f1", get |-> NoneS]
NoFile == [id |-> "", get |-> NoneS]
FileOk(f) == [ok |-> TRUE, value |-> f, err |-> NoError]
FileErr(e) == [ok |-> FALSE, value |-> NoFile, err |-> e]
NoUpload == [ok |-> FALSE, value |-> NoFile, err |-> NoError]

\* ---- file inputs (models/file.rs, api/files.rs) ----

\* Result<String>
StrOk(s) == [ok |-> TRUE, value |-> s, err |-> NoError]
StrErr(e) == [ok |-> FALSE, value |-> "", err |-> e]

\* An InvalidInput reported as Error::File.
invalid_input_AsFile(message) ==
    MkError("File", 0, message, NoneS, "", NoneS, NoneS, 0)

\* Error::InvalidInput(message)
invalid_input(message) ==
    MkError("InvalidInput", 0, message, NoneS, "", NoneS, NoneS, 0)

\* The failed read reported as a misuse of the API.
FileReadError_AsInvalidInput ==
    MkError("InvalidInput", 0, "read", NoneS, "", NoneS, NoneS, 0)

\* Error::File from a std::io::Error: the local file could not be read.
FileReadError ==
    MkError("File", 0, "read", NoneS, "", NoneS, NoneS, 0)

\* FileInput: Url(url), Path(path) or Bytes{data, filename, content_type}.
\* loc is the URL or the path; data is a sequence of bytes.
FileInput(tag, loc, data, filename, content_type) ==
    [tag |-> tag, loc |-> loc, data |-> data, filename |-> filename,
     content_type |-> content_type]

\* The alphabet of base64::engine::general_purpose::STANDARD.
Base64Alphabet ==
    <<"A", "B", "C", "D", "E", "F", "G", "H", "I", "J", "K", "L", "M", "N", "O", "P",
      "Q", "R", "S", "T", "U", "V", "W", "X", "Y", "Z", "a", "b", "c", "d", "e", "f",
      "g", "h", "i", "j", "k", "l", "m", "n", "o", "p", "q", "r", "s", "t", "u", "v",
      "w", "x", "y", "z", "0", "1", "2", "3", "4", "5", "6", "7", "8", "9", "+", "/">>

\* STANDARD.encode(data): three bytes give four symbols of six bits each; a
\* tail of one or two bytes is padded with "=".
RECURSIVE Base64(_)
Base64(data) ==
    LET sym(n) == Base64Alphabet[n + 1]
        b(i) == data[i]
    IN  IF Len(data) = 0 THEN ""
        ELSE IF Len(data) = 1
        THEN sym(b(1) \div 4) \o sym((b(1) % 4) * 16) \o "=="
        ELSE IF Len(data) = 2
        THEN sym(b(1) \div 4) \o sym((b(1) % 4) * 16 + b(2) \div 16)
             \o sym((b(2) % 16) * 4) \o "="
        ELSE sym(b(1) \div 4) \o sym((b(1) % 4) * 16 + b(2) \div 16)
             \o sym((b(2) % 16) * 4 + b(3) \div 64) \o sym(b(3) % 64)
             \o Base64(SubSeq(data, 4, Len(data)))

\* mime_guess::from_path(path).first_or_octet_stream()
MimeGuess(path) ==
    IF path = "a.txt" THEN "text/plain" ELSE "application/octet-stream"

\* Bytes whose content type is None are sent as application/octet-stream.
encode_file_as_data_url_NoDefault(file_input, read) ==
    CASE file_input.tag = "Url" ->
             StrErr(invalid_input("Cannot encode URL as data URL without downloading"))
      [] file_input.tag = "Path" ->
             IF read.ok
             THEN StrOk("data:" \o MimeGuess(file_input.loc) \o ";base64," \o Base64(read.data))
             ELSE StrErr(FileReadError)
      [] OTHER ->
             StrOk("data:" \o file_input.content_type.v \o ";base64,"
                   \o Base64(file_input.data))

\* encode_file_as_data_url: a Url cannot be encoded; a Path is read (read is
\* what tokio::fs::read returned) and typed by its extension; Bytes are
\* typed by content_type or as application/octet-stream.
encode_file_as_data_url(file_input, read) ==
    CASE file_input.tag = "Url" ->
             StrErr(invalid_input("Cannot encode URL as data URL without downloading"))
      [] file_input.tag = "Path" ->
             IF read.ok
             THEN StrOk("data:" \o MimeGuess(file_input.loc) \o ";base64," \o Base64(read.data))
             ELSE StrErr(FileReadError)
      [] OTHER ->
             StrOk("data:"
                   \o (IF file_input.content_type.some THEN file_input.content_type.v
                       ELSE "application/octet-stream")
                   \o ";base64," \o Base64(file_input.data))


\* ---- HttpConfig (http/client.rs) ----
\* One tick of model time is 500 ms: Duration::from_millis(500) is one tick.
RetryConfig(max_retries, min_delay, max_delay, base_multiplier) ==
    [max_retries |-> max_retries, min_delay |-> min_delay, max_delay |-> max_delay,
     base_multiplier |-> base_multiplier]

DefaultMaxRetries == 3
DefaultMinDelay == 1
DefaultMaxDelay == 60
DefaultBaseMultiplier == 2

\* impl Default for RetryConfig
DefaultRetryConfig ==
    RetryConfig(DefaultMaxRetries, DefaultMinDelay, DefaultMaxDelay, DefaultBaseMultiplier)

TimeoutConfig(connect_timeout, request_timeout) ==
    [connect_timeout |-> connect_timeout, request_timeout |-> request_timeout]

DefaultConnectTimeout == 60
DefaultRequestTimeout == 120

\* impl Default for TimeoutConfig
DefaultTimeoutConfig ==
    TimeoutConfig(SomeD(DefaultConnectTimeout), SomeD(DefaultRequestTimeout))

\* A client built by a ClientBuilder on which neither timeout was set.
NoTimeouts == TimeoutConfig(NoneD, NoneD)

HttpConfig(retry, timeout) == [retry |-> retry, timeout |-> timeout]

\* Marks a request that is not running, a handle that does not exist.
NoConfig == HttpConfig(RetryConfig(0, 0, 0, 0), NoTimeouts)

DefaultBaseUrl == <<"https:", "/", "/", "api.replicate.com">>

\* ---- URLs (http/client.rs) ----

\* A text (URL, path) is the sequence of its pieces, every "/" a piece of
\* its own: str::strip_prefix('/') and str::trim_end_matches('/') act on the
\* first and the last pieces.
strip_prefix_slash(path) ==
    IF Len(path) > 0 /\ Head(path) = "/" THEN Tail(path) ELSE path

RECURSIVE trim_end_slashes(_)
trim_end_slashes(text) ==
    IF Len(text) > 0 /\ text[Len(text)] = "/"
    THEN trim_end_slashes(SubSeq(text, 1, Len(text) - 1))
    ELSE text

\* A request sent to the path as it is given.
build_url_Verbatim(url, path) == path

\* HttpClient::build_url: format!("{}/{}", base_url.trim_end_matches('/'),
\* path.strip_prefix('/').unwrap_or(path))
build_url(url, path) ==
    trim_end_slashes(url) \o <<"/">> \o strip_prefix_slash(path)

\* Option<&str> of a cursor.
NoCursor == [some |-> FALSE, v |-> <<>>]
SomeCursor(text) == [some |-> TRUE, v |-> text]

\* PredictionsApi::list(cursor): GET of the cursor or of /v1/predictions.
List(cursor) == [method |-> "GET", id |-> "", cursor |-> cursor]

\* The path the API method hands to get_json / post_json.
RequestPath(kind) ==
    IF "cursor" \in DOMAIN kind
    THEN IF kind.cursor.some THEN kind.cursor.v ELSE <<"/", "v1", "/", "predictions">>
    ELSE IF kind.method = "POST" THEN <<"/", "v1", "/", "predictions">>
    ELSE <<"/", "v1", "/", "predictions", "/", kind.id>>

\* PaginatedResponse<Prediction>: next and previous are URLs of pages.
Page(next, previous) == [results |-> <<>>, next |-> next, previous |-> previous]
NoPage == Page(NoCursor, NoCursor)

\* ---- state ----
VARIABLES
    http_config,     \* HttpClient.http_config: the configuration the accessors report
    client,          \* HttpClient.client: the configuration the middleware client was built from
    api_token,       \* HttpClient.api_token
    base_url,        \* HttpClient.base_url
    clone,           \* a second handle made by HttpClient::clone, if any
    lastResult,      \* outcome of the last constructor or configure call, until Finish
    delay,           \* backoff delay the middleware is sleeping for
    startConfig,     \* configuration of the client when the current request was sent
    reqUrl,          \* URL the current request is sent to
    other,           \* a second request running concurrently, on either handle
    page,            \* the last page of predictions the caller got from list
    callTimeout,     \* timeouts of the reqwest client that executes the current HTTP call
    upPc,            \* multipart upload: idle, inflight, returned
    upAttempts,      \* HTTP attempts sent for the current upload
    upOutcome,       \* outcome of the last attempt of the upload
    upResult,        \* what the upload returned
    client_http,     \* Client.http: the handle a Client keeps besides those of its APIs
    create,          \* PredictionsApi::create in progress: its request and where it stands
    call,            \* API call the caller is in: none, request, wait, send_and_wait, send_and_wait_with_timeout
    reqPc,           \* JSON request: idle, inflight, backoff, returned, dropped
    reqOwner,        \* who awaits the request: none, caller, wait (a status fetch), send (create of send_and_wait)
    reqKind,         \* the request sent: Create or Get(id)
    attempts,        \* HTTP attempts sent for the current request
    n_past_retries,  \* retry counter of the middleware for the current request
    outcomes,        \* outcomes of the attempts of the current request, in order
    reqResult,       \* what the JSON request returned to its awaiter
    waitPc,          \* wait_for_completion: idle, creating, tick, fetch, done
    waitId,          \* id argument of the wait
    max_duration,    \* Option<Duration> argument of the wait
    poll_interval,   \* period of the interval, after unwrap_or
    now,             \* ticks elapsed since the wait future was first polled
    nextTick,        \* deadline of the next interval tick
    fetches,         \* status fetches started by this wait
    lastFetch,       \* time at which the latest status fetch of this wait started
    inFlight,        \* status fetches of this wait started and not yet returned
    served,          \* statuses of the snapshots the fetches returned, in order
    fetchFailed,     \* a status fetch of this wait returned an error
    waitResult       \* what the wait (or send_and_wait) returned

handleVars == <<http_config, client, api_token, base_url, clone, client_http, lastResult>>
upVars == <<upPc, upAttempts, upOutcome, upResult>>
reqVars == <<reqPc, reqOwner, reqKind, attempts, n_past_retries, outcomes, reqResult,
             delay, startConfig, callTimeout, reqUrl>>
waitVars == <<waitPc, waitId, max_duration, poll_interval, now, nextTick, fetches, lastFetch,
              inFlight, served, fetchFailed, waitResult>>
auxVars == <<create, page, other>>
vars == <<handleVars, upVars, auxVars, call, reqVars, waitVars>>

\* Duration::from_millis(500), the fallback of unwrap_or in wait_for_completion.
DefaultPollInterval == 1

PollIntervals == {NoneD, SomeD(1), SomeD(2)}
MaxDurations == {NoneD} \cup {SomeD(d) : d \in 0..MaxDur}

\* ---- pure functions ----

\* is_terminal with Succeeded left out of the match.
is_terminal_NoSucceeded(status) == status \in {"failed", "canceled"}

\* PredictionStatus::is_terminal
is_terminal(status) == status \in {"succeeded", "failed", "canceled"}

\* is_failed that also takes a canceled prediction for a failed one.
is_failed_OrCanceled(prediction) == prediction.status \in {"failed", "canceled"}

\* Prediction::is_failed
is_failed(prediction) == prediction.status = "failed"

\* reqwest::StatusCode::is_success
is_success(code) == code \in 200..299

\* A strategy that takes every error status for transient.
Retryable_AnyErrorStatus(o) ==
    IF o.kind = "status"
    THEN o.code >= 400
    ELSE o.kind \in {"network", "timeout"}

\* The retryable strategy of RetryTransientMiddleware::new_with_policy: server
\* errors, 408 and 429 are transient, other responses are not; of the send
\* failures, connection failures and timeouts are transient.
Retryable(o) ==
    IF o.kind = "status"
    THEN o.code \in 500..599 \/ o.code = 408 \/ o.code = 429
    ELSE o.kind \in {"network", "timeout"}

\* A policy that stops one retry early.
should_retry_OneLess(n, max_retries) == n + 1 < max_retries

\* A policy that allows one retry more.
should_retry_OneMore(n, max_retries) == n <= max_retries

\* ExponentialBackoff built with build_with_max_retries(max_retries):
\* retry while fewer than max_retries retries were made.
should_retry(n, max_retries) == n < max_retries

RECURSIVE Pow(_, _)
Pow(b, e) == IF e = 0 THEN 1 ELSE b * Pow(b, e - 1)

Min(a, b) == IF a <= b THEN a ELSE b

\* A backoff that grows without regard to max_delay.
BackoffCeiling_Unclamped(retry, n) ==
    retry.min_delay * Pow(retry.base_multiplier, n)

\* ExponentialBackoff built with retry_bounds(min_delay, max_delay) and
\* base(base_multiplier): the wait before retry n, before jitter.
BackoffCeiling(retry, n) ==
    Min(retry.max_delay, retry.min_delay * Pow(retry.base_multiplier, n))

\* Jitter::Bounded: the wait is drawn between min_delay and the ceiling.
Delays(retry, n) == retry.min_delay .. BackoffCeiling(retry, n)

\* A request path that reports the outcome of the first attempt of the
\* request instead of the one the middleware handed back.
JsonResult_FirstAttempt(o) ==
    LET f == IF Len(outcomes) > 0 THEN outcomes[1] ELSE o IN
    IF f.kind # "status" THEN Err(HttpMiddlewareError(f.kind))
    ELSE IF f.code \in 200..299
         THEN IF f.body = Malformed THEN Err(HttpDecodeError) ELSE Ok(f.body)
         ELSE Err(to_replicate_error(f.code, f.text))

\* execute_request followed by get_json / post_json: the error of a failed
\* send, the mapped error of a non-2xx response, or the decoded body.
JsonResult(o) ==
    IF o.kind # "status" THEN Err(HttpMiddlewareError(o.kind))
    ELSE IF is_success(o.code)
         THEN IF o.body = Malformed THEN Err(HttpDecodeError) ELSE Ok(o.body)
         ELSE Err(to_replicate_error(o.code, o.text))

\* The value the loop of wait_for_completion returns for a terminal snapshot.
TerminalResult(id, prediction) ==
    IF is_failed(prediction)
    THEN Err(model_execution(id, prediction.error, prediction.logs))
    ELSE Ok(prediction)

\* A wait future that timeout keeps polling after it has returned.
WaitPending_AfterReturn ==
    \/ waitPc \in {"fetch", "done"}
    \/ waitPc = "tick" /\ now < nextTick

\* The wait future is pending on a timer or on its status fetch.
WaitPending ==
    \/ waitPc = "fetch"
    \/ waitPc = "tick" /\ now < nextTick

\* A deadline check that takes an absent max_duration for a zero one.
DeadlineElapsed_NoneIsZero == now >= max_duration.v

\* tokio::time::timeout(duration, wait_future): the future is polled first,
\* the deadline is checked only while it is pending.
DeadlineElapsed == max_duration.some /\ now >= max_duration.v

\* A tick that does not wait for the fetch of the previous tick.
TickReady_Overlapping == waitPc \in {"tick", "fetch"} /\ now >= nextTick

\* interval.tick() is ready, the loop goes on to self.get(id).
TickReady == waitPc = "tick" /\ now >= nextTick


\* serde_json::from_str::<Value>(&text) succeeds.
IsJson(text) == text \in {FileJson, FileNoUrlJson, DetailJson, EmptyJson}

\* api_error.get("detail").and_then(|v| v.as_str())
JsonDetail(text) == IF text = DetailJson THEN SomeS("d1") ELSE NoneS

\* execute_multipart_request followed by post_multipart_json: the error of a
\* failed send, Error::Api for every non-2xx response, or the decoded File.
MultipartResult(o) ==
    IF o.kind # "status" THEN FileErr(HttpSendError(o.kind))
    ELSE IF is_success(o.code)
         THEN IF o.text = FileJson THEN FileOk(File)
              ELSE IF o.text = FileNoUrlJson THEN FileOk(FileNoUrl)
              ELSE FileErr(JsonError)
         ELSE IF IsJson(o.text)
              THEN FileErr(api_error_with_detail(
                       o.code,
                       IF JsonDetail(o.text).some THEN JsonDetail(o.text).v
                       ELSE "Unknown API error",
                       o.text))
              ELSE FileErr(api_error(o.code, o.text))

\* An upload sent through the retry middleware of the handle.
MultipartWillRetry_Middleware(o) ==
    Retryable(o) /\ should_retry(upAttempts - 1, client.retry.max_retries)

\* The multipart request is sent by a plain reqwest::Client::new(): no
\* middleware sees the outcome, nothing is retried.
MultipartWillRetry(o) == FALSE

\* The timeouts of the plain reqwest::Client::new() that sends an upload.
MultipartClientTimeouts == NoTimeouts

\* ---- initial state: a client built by with_retry_config, nothing running ----
IdleRequest ==
    /\ reqPc' = "idle"
    /\ reqOwner' = "none"
    /\ reqKind' = NoRequest
    /\ attempts' = 0
    /\ n_past_retries' = 0
    /\ outcomes' = <<>>
    /\ reqResult' = NoResult
    /\ delay' = 0
    /\ startConfig' = NoConfig
    /\ reqUrl' = <<>>
    /\ callTimeout' = NoTimeouts

\* No PredictionsApi::create or process_file_input is in progress.
NoCreate ==
    [pc |-> "idle", op |-> "none", file_inputs |-> <<>>, pending |-> <<>>,
     strategy |-> "Base64DataUrl", uploader |-> FALSE, input |-> <<>>,
     reads |-> 0, uploads |-> 0, result |-> StrErr(NoError),
     body |-> [fields |-> {}, input |-> <<>>], asked |-> <<>>, calls |-> 0]

\* No second request is running.
NoOther == [pc |-> "idle", handle |-> "main", attempts |-> 0, n_past_retries |-> 0,
            outcomes |-> <<>>]

\* No second handle yet.
NoClone == [exists |-> FALSE, http_config |-> NoConfig, client |-> NoConfig]

\* What the first handle is executing: a JSON request, an upload or nothing.
Running ==
    IF reqPc \in {"inflight", "backoff"} THEN "request"
    ELSE IF upPc = "inflight" THEN "upload" ELSE "none"

\* Outcome of the last constructor or configure call made since the caller
\* last took the result of a request: none, Ok or Err, and what the first
\* handle was executing when the call returned.
NoCall ==
    [called |-> FALSE, ok |-> FALSE, err |-> NoError, during |-> "none", panicked |-> FALSE]
CallOk ==
    [called |-> TRUE, ok |-> TRUE, err |-> NoError, during |-> Running, panicked |-> FALSE]
CallErr(e) ==
    [called |-> TRUE, ok |-> FALSE, err |-> e, during |-> Running, panicked |-> FALSE]

\* The call did not return: it panicked and the thread unwound.
CallPanicked ==
    [called |-> TRUE, ok |-> FALSE, err |-> NoError, during |-> Running, panicked |-> TRUE]

\* ExponentialBackoff::builder().retry_bounds(min_delay, max_delay) asserts
\* min_delay <= max_delay and panics otherwise.
retry_bounds_panics(retry) == retry.min_delay > retry.max_delay

\* Error::Http from client_builder.build()?
HttpBuildError ==
    MkError("Http", 0, "build", NoneS, "", NoneS, NoneS, 0)

\* build_client_with_config: the middleware client, told by the retry policy
\* and the timeouts it was built with.
build_client_with_config(config) ==
    HttpConfig(RetryConfig(config.retry.max_retries, config.retry.min_delay,
                           config.retry.max_delay, config.retry.base_multiplier),
               TimeoutConfig(config.timeout.connect_timeout,
                             config.timeout.request_timeout))

\* A handle built without error from token and config, nothing running;
\* facade is the handle of the Client that holds it, if one does.
InitHandleOf(token, config, facade) ==
    /\ http_config = config
    /\ client = build_client_with_config(config)
    /\ api_token = token
    /\ base_url = DefaultBaseUrl
    /\ clone = NoClone
    /\ client_http = facade
    /\ lastResult = NoCall
    /\ delay = 0
    /\ startConfig = NoConfig
    /\ reqUrl = <<>>
    /\ page = NoPage
    /\ other = NoOther
    /\ callTimeout = NoTimeouts
    /\ upPc = "idle"
    /\ upAttempts = 0
    /\ upOutcome = Failure("none")
    /\ upResult = NoUpload

\* A handle made by a constructor of HttpClient.
InitHandle(token, config) == InitHandleOf(token, config, NoClone)

InitWith(maxRetries) ==
    /\ \E m \in 0..maxRetries :
          InitHandle("tok", HttpConfig(RetryConfig(m, DefaultMinDelay, DefaultMaxDelay,
                                                   DefaultBaseMultiplier),
                                       DefaultTimeoutConfig))
    /\ call = "none"
    /\ create = NoCreate
    /\ reqPc = "idle"
    /\ reqOwner = "none"
    /\ reqKind = NoRequest
    /\ attempts = 0
    /\ n_past_retries = 0
    /\ outcomes = <<>>
    /\ reqResult = NoResult
    /\ waitPc = "idle"
    /\ waitId = ""
    /\ max_duration = NoneD
    /\ poll_interval = DefaultPollInterval
    /\ now = 0
    /\ nextTick = 0
    /\ fetches = 0
    /\ lastFetch = 0
    /\ inFlight = 0
    /\ served = <<>>
    /\ fetchFailed = FALSE
    /\ waitResult = NoResult

Init == InitWith(MaxRetriesBound)

\* ---- the JSON request path ----

\* client.request(..).send(): the middleware sends the first attempt.
SendFirstAttempt(owner, kind) ==
    /\ api_token # ""
    /\ reqPc' = "inflight"
    /\ reqOwner' = owner
    /\ reqKind' = kind
    /\ attempts' = 1
    /\ n_past_retries' = 0
    /\ outcomes' = <<>>
    /\ reqResult' = NoResult
    /\ delay' = 0
    /\ startConfig' = client
    /\ reqUrl' = build_url(base_url, RequestPath(kind))
    /\ callTimeout' = client.timeout

\* A retry counter kept in the middleware and counted up by every request
\* that runs through it.
past_retries_Shared(own, others) == own + others

\* RetryTransientMiddleware::execute_with_retry counts n_past_retries in a
\* local of the execution of one request: the policy is asked with the
\* retries of this request, whatever others ran through the same client.
past_retries(own, others) == own

\* A client without retry middleware: every outcome is handed back.
WillRetry_Never(o) == FALSE

\* The middleware keeps the outcome of an attempt to itself and retries.
WillRetry(o) ==
    /\ Retryable(o)
    /\ should_retry(past_retries(n_past_retries, other.n_past_retries),
                    client.retry.max_retries)

\* PredictionsApi::create / get called directly by the caller.
StartRequest(kind) ==
    /\ call = "none"
    /\ call' = "request"
    /\ SendFirstAttempt("caller", kind)
    /\ UNCHANGED <<auxVars, handleVars, upVars, waitVars>>

\* An attempt ends in a transient outcome and retries remain: the middleware
\* sleeps for the backoff delay.
AttemptRetried(o) ==
    /\ reqPc = "inflight"
    /\ WillRetry(o)
    /\ outcomes' = Append(outcomes, o)
    /\ n_past_retries' = n_past_retries + 1
    /\ reqPc' = "backoff"
    /\ delay' \in Delays(client.retry, n_past_retries)
    /\ UNCHANGED <<auxVars, handleVars, upVars, call, reqOwner, reqKind, attempts, reqResult,
                   startConfig, reqUrl, callTimeout, waitVars>>

\* The backoff delay is over: the next attempt is sent.
RetryAfterDelay ==
    /\ reqPc = "backoff"
    /\ reqPc' = "inflight"
    /\ attempts' = attempts + 1
    /\ delay' = 0
    /\ UNCHANGED <<auxVars, handleVars, upVars, call, reqOwner, reqKind, n_past_retries, outcomes,
                   reqResult, startConfig, reqUrl, callTimeout, waitVars>>

\* The middleware hands the outcome of an attempt back; a request of the
\* caller returns.
RequestReturns(o) ==
    /\ reqPc = "inflight"
    /\ reqOwner = "caller"
    /\ ~WillRetry(o)
    /\ outcomes' = Append(outcomes, o)
    /\ reqResult' = JsonResult(o)
    /\ reqPc' = "returned"
    /\ UNCHANGED <<auxVars, handleVars, upVars, call, reqOwner, reqKind, attempts, n_past_retries,
                   delay, startConfig, reqUrl, callTimeout, waitVars>>

\* ---- constructors, clone and configure calls ----

\* The arguments explored: retry bounds with min_delay <= max_delay, timeouts
\* set and unset, a base URL, a token or none.
RetryArgs ==
    {RetryConfig(m, 1, 2, 3) : m \in 0..MaxRetriesConfig}
    \cup {RetryConfig(m, 2, 4, 2) : m \in 0..MaxRetriesConfig}
TimeoutArgs == {NoTimeouts, TimeoutConfig(SomeD(1), SomeD(2))}
BaseUrls == {<<"http:", "/", "/", "localhost">>}
Tokens == {"", "tok"}

Constructors ==
    {"new", "with_retry_config", "with_http_config", "with_base_url",
     "with_base_url_and_retry", "with_base_url_and_http_config",
     "Client::new", "Client::with_base_url", "Client::with_http_config"}

\* Client::with_http_config: http is built, then PredictionsApi::new and
\* FilesApi::new get http.clone(). The requests of client.predictions() run
\* on the handle of the PredictionsApi, which is the first handle here;
\* client_http is Client.http.
ClientHandle(config) ==
    [exists |-> TRUE, http_config |-> config, client |-> build_client_with_config(config)]

\* The constructors of Client: each builds Client.http and hands clones of
\* it to PredictionsApi and FilesApi.
ClientConstructors == {"Client::new", "Client::with_base_url", "Client::with_http_config"}

\* The HttpConfig a constructor hands to with_http_config.
CtorConfig(ctor, retry, timeout) ==
    IF ctor \in {"new", "with_base_url", "Client::new", "Client::with_base_url"}
    THEN HttpConfig(DefaultRetryConfig, DefaultTimeoutConfig)
    ELSE IF ctor \in {"with_retry_config", "with_base_url_and_retry"}
         THEN HttpConfig(retry, DefaultTimeoutConfig)
         ELSE HttpConfig(retry, timeout)

\* The base URL of the handle a constructor returns.
CtorBaseUrl(ctor, url) ==
    IF ctor \in {"with_base_url", "with_base_url_and_retry",
                 "with_base_url_and_http_config", "Client::with_base_url"}
    THEN url
    ELSE DefaultBaseUrl

\* A with_http_config that takes every token.
TokenRejected_Never(token) == FALSE

\* if api_token.is_empty() { return Err(..) }
TokenRejected(token) == token = ""

\* No handle: the constructor returned Err.
NoHandle ==
    /\ http_config' = NoConfig
    /\ client' = NoConfig
    /\ api_token' = ""
    /\ base_url' = <<>>

\* Every constructor ends in with_http_config(token, config): an empty token
\* is rejected before anything is built, a failed build is passed on, and
\* otherwise the handle holds the client built from config.
Construct(ctor, token, retry, timeout, url, buildOk) ==
    /\ call = "none"
    /\ LET config == CtorConfig(ctor, retry, timeout) IN
       IF TokenRejected(token)
       THEN /\ lastResult' = CallErr(auth_error("API token cannot be empty"))
            /\ NoHandle
       ELSE IF retry_bounds_panics(config.retry)
       THEN /\ lastResult' = CallPanicked
            /\ NoHandle
       ELSE IF ~buildOk
            THEN /\ lastResult' = CallErr(HttpBuildError)
                 /\ NoHandle
            ELSE /\ lastResult' = CallOk
                 /\ http_config' = config
                 /\ client' = build_client_with_config(config)
                 /\ api_token' = token
                 /\ base_url' = CtorBaseUrl(ctor, url)
    /\ clone' = NoClone
    /\ client_http' = IF /\ ctor \in ClientConstructors
                          /\ ~TokenRejected(token)
                          /\ ~retry_bounds_panics(CtorConfig(ctor, retry, timeout).retry)
                          /\ buildOk
                       THEN ClientHandle(CtorConfig(ctor, retry, timeout))
                       ELSE NoClone
    /\ UNCHANGED <<auxVars, upVars, call, reqVars, waitVars>>

\* #[derive(Clone)]: the second handle gets copies of the fields.
CloneClient ==
    /\ api_token # ""
    /\ clone' = [exists |-> TRUE, http_config |-> http_config, client |-> client]
    /\ UNCHANGED <<auxVars, http_config, client, api_token, base_url, client_http, lastResult,
                   upVars, call, reqVars, waitVars>>

Handles == {"main", "clone"}

\* Handles that share one state, so that a configure call on either writes both.
ConfigTargets_Shared(h) == Handles

\* A configure call on the clone that writes the handle it was cloned from.
ConfigTargets_Origin(h) == {"main"}

\* self.client = new_client; self.http_config = new_http_config: the handle
\* the call was made on is the one written.
ConfigTargets(h) == {h}

\* The http_config field of handle h.
HandleConfig(h) == IF h = "main" THEN http_config ELSE clone.http_config

\* A configure call takes &mut self: the handle exists and nothing borrows it.
CanConfigure(h) ==
    IF h = "main" THEN call = "none" /\ api_token # "" ELSE clone.exists

\* A configure call that stores new_http_config before it builds the client:
\* after a failed build the stored configuration is the new one.
Rebuild_StoresConfigFirst(h, new_http_config, buildOk) ==
    /\ CanConfigure(h)
    /\ lastResult' = IF buildOk THEN CallOk ELSE CallErr(HttpBuildError)
    /\ http_config' = IF h = "main" THEN new_http_config ELSE http_config
    /\ client' = IF h = "main" /\ buildOk THEN build_client_with_config(new_http_config)
                  ELSE client
    /\ clone' = IF h = "clone"
                 THEN [clone EXCEPT !.http_config = new_http_config,
                                    !.client = IF buildOk
                                               THEN build_client_with_config(new_http_config)
                                               ELSE clone.client]
                 ELSE clone
    /\ UNCHANGED <<auxVars, api_token, base_url, client_http, upVars, call, reqVars, waitVars>>

\* The tail of configure_retries_advanced and configure_timeouts: the client
\* is rebuilt from new_http_config; on Ok both fields of the handle are
\* replaced, on Err and on a panic neither.
Rebuild(h, new_http_config, buildOk) ==
    /\ CanConfigure(h)
    /\ IF retry_bounds_panics(new_http_config.retry)
       THEN /\ lastResult' = CallPanicked
            /\ UNCHANGED <<http_config, client, clone>>
       ELSE IF buildOk
       THEN /\ lastResult' = CallOk
            /\ http_config' = IF "main" \in ConfigTargets(h) THEN new_http_config
                               ELSE http_config
            /\ client' = IF "main" \in ConfigTargets(h)
                          THEN build_client_with_config(new_http_config)
                          ELSE client
            /\ clone' = IF "clone" \in ConfigTargets(h) /\ clone.exists
                         THEN [exists |-> TRUE, http_config |-> new_http_config,
                               client |-> build_client_with_config(new_http_config)]
                         ELSE clone
       ELSE /\ lastResult' = CallErr(HttpBuildError)
            /\ UNCHANGED <<http_config, client, clone>>
    /\ UNCHANGED <<auxVars, api_token, base_url, client_http, upVars, call, reqVars, waitVars>>

ConfigureRetriesAdvanced(h, max_retries, min_delay, max_delay, base_multiplier, buildOk) ==
    Rebuild(h, HttpConfig(RetryConfig(max_retries, min_delay, max_delay, base_multiplier),
                          HandleConfig(h).timeout),
            buildOk)

\* configure_retries passing on the base_multiplier the handle holds.
ConfigureRetries_KeepsMultiplier(h, max_retries, min_delay, max_delay, buildOk) ==
    ConfigureRetriesAdvanced(h, max_retries, min_delay, max_delay,
                             HandleConfig(h).retry.base_multiplier, buildOk)

\* configure_retries(max_retries, min_delay, max_delay): configure_retries_advanced
\* with base_multiplier 2.
ConfigureRetries(h, max_retries, min_delay, max_delay, buildOk) ==
    ConfigureRetriesAdvanced(h, max_retries, min_delay, max_delay, 2, buildOk)

\* configure_timeouts building the new configuration from the default retry
\* settings instead of the current ones.
ConfigureTimeouts_DefaultRetry(h, connect_timeout, request_timeout, buildOk) ==
    Rebuild(h, HttpConfig(DefaultRetryConfig,
                          TimeoutConfig(connect_timeout, request_timeout)),
            buildOk)

ConfigureTimeouts(h, connect_timeout, request_timeout, buildOk) ==
    Rebuild(h, HttpConfig(HandleConfig(h).retry,
                          TimeoutConfig(connect_timeout, request_timeout)),
            buildOk)

\* ---- Client (client.rs) ----

\* Client::configure_retries and Client::configure_timeouts delegate to
\* self.http alone: Client.http is rebuilt from new_http_config.
ClientRebuild(new_http_config, buildOk) ==
    /\ call = "none"
    /\ client_http.exists
    /\ IF retry_bounds_panics(new_http_config.retry)
       THEN /\ lastResult' = CallPanicked
            /\ client_http' = client_http
       ELSE IF buildOk
       THEN /\ lastResult' = CallOk
            /\ client_http' = ClientHandle(new_http_config)
       ELSE /\ lastResult' = CallErr(HttpBuildError)
            /\ client_http' = client_http
    /\ UNCHANGED <<auxVars, http_config, client, api_token, base_url, clone, upVars, call,
                   reqVars, waitVars>>

\* Client::configure_retries: self.http.configure_retries(..), base 2.
ClientConfigureRetries(max_retries, min_delay, max_delay, buildOk) ==
    ClientRebuild(HttpConfig(RetryConfig(max_retries, min_delay, max_delay, 2),
                             client_http.http_config.timeout),
                  buildOk)

\* Client::configure_timeouts: self.http.configure_timeouts(..)
ClientConfigureTimeouts(connect_timeout, request_timeout, buildOk) ==
    ClientRebuild(HttpConfig(client_http.http_config.retry,
                             TimeoutConfig(connect_timeout, request_timeout)),
                  buildOk)

\* ---- the multipart path ----

\* FilesApi::create_from_bytes / create_from_path: post_multipart_json sends
\* the form.
StartUpload ==
    /\ call = "none"
    /\ api_token # ""
    /\ call' = "upload"
    /\ upPc' = "inflight"
    /\ upAttempts' = 1
    /\ callTimeout' = MultipartClientTimeouts
    /\ UNCHANGED <<auxVars, handleVars, upOutcome, upResult, reqPc, reqOwner, reqKind, attempts,
                   n_past_retries, outcomes, reqResult, delay, startConfig, reqUrl, waitVars>>

\* The attempt of the upload ends and its outcome is returned to the caller.
UploadReturns(o) ==
    /\ upPc = "inflight"
    /\ IF MultipartWillRetry(o)
       THEN /\ upAttempts' = upAttempts + 1
            /\ UNCHANGED <<upPc, upOutcome, upResult>>
       ELSE /\ upPc' = "returned"
            /\ upOutcome' = o
            /\ upResult' = MultipartResult(o)
            /\ upAttempts' = upAttempts
    /\ UNCHANGED <<auxVars, handleVars, call, reqVars, waitVars>>

\* ---- file inputs of a prediction (api/predictions.rs, api/files.rs) ----

\* The fields of CreatePredictionRequest that hold a value in the requests
\* explored (the Option fields are None), and those marked #[serde(skip)].
RequestFields == {"version", "input", "file_inputs", "file_encoding_strategy"}
SerdeSkipped_Nothing == {}
SerdeSkipped == {"file_inputs", "file_encoding_strategy"}

\* The fields of the JSON body serde_json writes for the request; the body
\* of a create is these fields and the input map as it is when sent.
SerializedFields == RequestFields \ SerdeSkipped

\* PredictionsApi::create(request): the file inputs are processed in the
\* iteration order of the HashMap (pending, any order of the keys); the API
\* of a Client always holds Some(files_api).
StartCreate(file_inputs, pending, strategy) ==
    /\ call = "none"
    /\ api_token # ""
    /\ call' = "create"
    /\ create' = [NoCreate EXCEPT !.pc = "files", !.op = "create",
                                  !.file_inputs = file_inputs, !.pending = pending,
                                  !.strategy = strategy, !.uploader = TRUE,
                                  !.input = [k \in {"prompt"} |-> "a cat"]]
    /\ UNCHANGED <<page, other, handleVars, upVars, reqVars, waitVars>>

\* process_file_input(file_input, encoding_strategy, files_api) called by
\* the caller, with or without a FilesApi.
StartProcessFileInput(file_input, strategy, uploader) ==
    /\ call = "none"
    /\ api_token # ""
    /\ call' = "process_file_input"
    /\ create' = [NoCreate EXCEPT !.pc = "files", !.op = "process_file_input",
                                  !.file_inputs = [k \in {"file"} |-> file_input],
                                  !.pending = <<"file">>,
                                  !.strategy = strategy, !.uploader = uploader]
    /\ UNCHANGED <<page, other, handleVars, upVars, reqVars, waitVars>>

\* process_file_input returned Ok(value) for the first pending key:
\* request.input.insert(key, Value::String(value)); a direct call returns.
Resolved(value) ==
    LET key == Head(create.pending) IN
    [create EXCEPT !.input = [k \in DOMAIN create.input \cup {key} |->
                                 IF k = key THEN value ELSE create.input[k]],
                   !.pending = Tail(create.pending),
                   !.result = StrOk(value),
                   !.pc = IF create.op = "create" THEN "files" ELSE "done"]

\* The error is dropped and an empty value is stored.
Failed_Swallowed(e) == Resolved("")

\* The error is noted and create goes on with the next file input.
Failed_Continues(e) ==
    [create EXCEPT !.result = StrErr(e),
                   !.pending = Tail(create.pending),
                   !.pc = IF create.op = "create" THEN "files" ELSE "done"]

\* process_file_input returned Err: the ? of create returns it, nothing is
\* sent.
Failed(e) == [create EXCEPT !.result = StrErr(e), !.pc = "done"]

\* process_file_input for the next file input, up to its first await on the
\* network: the data URL is computed in place (read is what tokio::fs::read
\* returns for a Path), or create_from_file_input starts an upload.
ProcessFileInput(read) ==
    /\ create.pc = "files"
    /\ create.pending # <<>>
    /\ LET file_input == create.file_inputs[Head(create.pending)]
           encoded == encode_file_as_data_url(file_input, read)
       IN  IF create.strategy = "Base64DataUrl"
           THEN /\ create' = [(IF encoded.ok THEN Resolved(encoded.value)
                                ELSE Failed(encoded.err))
                               EXCEPT !.reads = IF file_input.tag = "Path"
                                                THEN create.reads + 1 ELSE create.reads]
                /\ UNCHANGED <<upVars, callTimeout>>
           ELSE IF ~create.uploader
           THEN /\ create' = Failed(invalid_input("Files API required for multipart upload"))
                /\ UNCHANGED <<upVars, callTimeout>>
           ELSE IF file_input.tag = "Url"
           THEN /\ create' = Failed(invalid_input(
                                  "Cannot upload from URL - file must be local or bytes"))
                /\ UNCHANGED <<upVars, callTimeout>>
           ELSE IF file_input.tag = "Path" /\ ~read.ok
           THEN /\ create' = [Failed(FileReadError) EXCEPT !.reads = create.reads + 1]
                /\ UNCHANGED <<upVars, callTimeout>>
           ELSE /\ create' = [create EXCEPT
                                 !.pc = "uploading",
                                 !.uploads = create.uploads + 1,
                                 !.reads = IF file_input.tag = "Path" THEN create.reads + 1
                                           ELSE create.reads]
                /\ upPc' = "inflight"
                /\ upAttempts' = 1
                /\ callTimeout' = MultipartClientTimeouts
                /\ UNCHANGED <<upOutcome, upResult>>
    /\ UNCHANGED <<page, other, handleVars, call, reqPc, reqOwner, reqKind, attempts, n_past_retries,
                   outcomes, reqResult, delay, startConfig, reqUrl, waitVars>>

\* The upload of create_from_file_input returned: its error is passed on by
\* the ?, and its File gives urls.get("get") or InvalidInput.
FileUploaded ==
    /\ create.pc = "uploading"
    /\ upPc = "returned"
    /\ create' = IF ~upResult.ok THEN Failed(upResult.err)
                  ELSE IF upResult.value.get.some THEN Resolved(upResult.value.get.v)
                  ELSE Failed(invalid_input("File missing URL"))
    /\ upPc' = "idle"
    /\ UNCHANGED <<page, other, handleVars, upAttempts, upOutcome, upResult, call, reqVars, waitVars>>

\* Every file input is resolved: self.http.post_json("/v1/predictions",
\* &request) serializes the request and sends it.
PostCreate ==
    /\ create.pc = "files"
    /\ create.op = "create"
    /\ create.pending = <<>>
    /\ create' = [create EXCEPT !.pc = "posting", !.body = [fields |-> SerializedFields, input |-> create.input]]
    /\ SendFirstAttempt("caller", Create)
    /\ UNCHANGED <<page, other, handleVars, upVars, call, waitVars>>

\* ---- PredictionBuilder (api/predictions.rs) ----

\* FileEncodingStrategy::default()
DefaultStrategy == "Multipart"

\* HashMap::insert(key, value)
Insert(map, key, value) ==
    [k \in DOMAIN map \cup {key} |-> IF k = key THEN value ELSE map[k]]

\* client.create_prediction(version): PredictionBuilder::new holds
\* CreatePredictionRequest::new(version), no file input and the default
\* strategy; one input parameter is set.
CreatePrediction ==
    /\ call = "none"
    /\ api_token # ""
    /\ call' = "building"
    /\ create' = [NoCreate EXCEPT !.pc = "building", !.op = "create",
                                  !.strategy = DefaultStrategy, !.uploader = TRUE,
                                  !.input = [k \in {"prompt"} |-> "a cat"]]
    /\ UNCHANGED <<page, other, handleVars, upVars, reqVars, waitVars>>

\* builder.file_input(key, file): the file is stored, the strategy of the
\* request stays; asked forgets what an earlier call asked for this key.
BuilderFileInput(key, file) ==
    /\ create.pc = "building"
    /\ create.calls < MaxBuilderCalls
    /\ create' = [create EXCEPT
                     !.file_inputs = Insert(create.file_inputs, key, file),
                     !.asked = [k \in DOMAIN create.asked \ {key} |-> create.asked[k]],
                     !.calls = create.calls + 1]
    /\ UNCHANGED <<page, other, handleVars, upVars, call, reqVars, waitVars>>

\* builder.file_input_with_strategy(key, file, strategy): the file is stored
\* and the one file_encoding_strategy of the request is overwritten; asked
\* keeps the strategy this call was given for key.
FileInputWithStrategy(key, file, strategy) ==
    /\ create.pc = "building"
    /\ create.calls < MaxBuilderCalls
    /\ create' = [create EXCEPT
                     !.file_inputs = Insert(create.file_inputs, key, file),
                     !.strategy = strategy,
                     !.asked = Insert(create.asked, key, strategy),
                     !.calls = create.calls + 1]
    /\ UNCHANGED <<page, other, handleVars, upVars, call, reqVars, waitVars>>

\* builder.send(): self.api.create(self.request); pending is the order in
\* which the HashMap yields the file inputs.
Send(pending) ==
    /\ create.pc = "building"
    /\ call' = "create"
    /\ create' = [create EXCEPT !.pc = "files", !.pending = pending]
    /\ UNCHANGED <<page, other, handleVars, upVars, reqVars, waitVars>>

\* The orders in which a HashMap with these keys can be iterated.
Orders(keys) ==
    {p \in [1..Cardinality(keys) -> keys] : \A i, j \in DOMAIN p : i # j => p[i] # p[j]}

\* ---- list (api/predictions.rs) ----

\* PredictionsApi::list(cursor) called by the caller; a cursor is the next
\* or previous URL of the page the caller holds.
StartList(cursor) ==
    /\ call = "none"
    /\ cursor.some => cursor \in {page.next, page.previous}
    /\ call' = "list"
    /\ SendFirstAttempt("caller", List(cursor))
    /\ UNCHANGED <<auxVars, handleVars, upVars, waitVars>>

\* ---- a second request in another task ----

\* A second task sends a request on handle h while the caller's call runs.
StartOther(h) ==
    /\ other.pc = "idle"
    /\ IF h = "main" THEN api_token # "" ELSE clone.exists
    /\ other' = [NoOther EXCEPT !.pc = "inflight", !.handle = h, !.attempts = 1]
    /\ UNCHANGED <<create, page, handleVars, upVars, call, reqVars, waitVars>>

\* An attempt of the second request ends: the middleware of its handle
\* retries it after a backoff or hands the outcome back.
OtherAttemptEnds(o) ==
    /\ other.pc = "inflight"
    /\ LET policy == IF other.handle = "main" THEN client.retry ELSE clone.client.retry
           retry == /\ Retryable(o)
                    /\ should_retry(past_retries(other.n_past_retries, n_past_retries),
                                    policy.max_retries)
       IN  other' = [other EXCEPT
                        !.outcomes = Append(other.outcomes, o),
                        !.n_past_retries = IF retry THEN other.n_past_retries + 1
                                           ELSE other.n_past_retries,
                        !.pc = IF retry THEN "backoff" ELSE "returned"]
    /\ UNCHANGED <<create, page, handleVars, upVars, call, reqVars, waitVars>>

\* The backoff of the second request is over: its next attempt is sent.
OtherRetryAfterDelay ==
    /\ other.pc = "backoff"
    /\ other' = [other EXCEPT !.pc = "inflight", !.attempts = other.attempts + 1]
    /\ UNCHANGED <<create, page, handleVars, upVars, call, reqVars, waitVars>>

\* The second task takes the result of its request.
OtherFinish ==
    /\ other.pc = "returned"
    /\ other' = NoOther
    /\ UNCHANGED <<create, page, handleVars, upVars, call, reqVars, waitVars>>

\* ---- wait_for_completion ----

\* The wait future starts: the interval is created, its first tick is due
\* at once.
BeginWait(id) ==
    /\ waitPc' = "tick"
    /\ waitId' = id
    /\ now' = 0
    /\ nextTick' = 0
    /\ fetches' = 0
    /\ lastFetch' = 0
    /\ inFlight' = 0
    /\ served' = <<>>
    /\ fetchFailed' = FALSE
    /\ waitResult' = NoResult

StartWait(id, md, pi) ==
    /\ call = "none"
    /\ call' = "wait"
    /\ max_duration' = md
    /\ poll_interval' = IF pi.some THEN pi.v ELSE DefaultPollInterval
    /\ BeginWait(id)
    /\ UNCHANGED <<auxVars, handleVars, upVars, reqVars>>

\* interval.tick() completes and self.get(id) sends its request.
TickFires ==
    /\ TickReady
    /\ nextTick' = nextTick + poll_interval
    /\ fetches' = fetches + 1
    /\ lastFetch' = now
    /\ inFlight' = inFlight + 1
    /\ waitPc' = "fetch"
    /\ SendFirstAttempt("wait", Get(waitId))
    /\ UNCHANGED <<auxVars, handleVars, upVars, call, waitId, max_duration, poll_interval, now, served,
                   fetchFailed, waitResult>>

\* What the request state holds once its awaiter has the result r: the
\* returned request, or nothing when the awaiter goes on and drops it.
RequestReturned(o, keep) ==
    IF keep
    THEN /\ outcomes' = Append(outcomes, o)
         /\ reqResult' = JsonResult(o)
         /\ reqPc' = "returned"
         /\ UNCHANGED <<reqOwner, reqKind, attempts, n_past_retries, delay, startConfig, reqUrl,
                        callTimeout>>
    ELSE IdleRequest

\* self.get(id) returns and the loop evaluates the result; a non-terminal
\* snapshot is dropped at the end of the iteration.
FetchReturns(o) ==
    /\ waitPc = "fetch"
    /\ reqPc = "inflight"
    /\ reqOwner = "wait"
    /\ ~WillRetry(o)
    /\ inFlight' = inFlight - 1
    /\ LET r == JsonResult(o) IN
       IF ~r.ok
       THEN /\ waitResult' = Err(r.err)
            /\ fetchFailed' = TRUE
            /\ waitPc' = "done"
            /\ served' = served
            /\ RequestReturned(o, TRUE)
       ELSE /\ served' = Append(served, r.value.status)
            /\ fetchFailed' = fetchFailed
            /\ IF is_terminal(r.value.status)
               THEN /\ waitResult' = TerminalResult(waitId, r.value)
                    /\ waitPc' = "done"
                    /\ RequestReturned(o, TRUE)
               ELSE /\ waitResult' = waitResult
                    /\ waitPc' = "tick"
                    /\ RequestReturned(o, FALSE)
    /\ UNCHANGED <<auxVars, handleVars, upVars, call, waitId, max_duration, poll_interval, now,
                   nextTick, fetches, lastFetch>>

\* timeout(duration, wait_future) elapses while the wait future is pending:
\* the future is dropped, and with it the request it was awaiting.
Timeout ==
    /\ WaitPending
    /\ DeadlineElapsed
    /\ waitResult' = Err(TimeoutError(waitId, max_duration.v))
    /\ waitPc' = "done"
    /\ reqPc' = IF reqPc \in {"inflight", "backoff"} THEN "dropped" ELSE reqPc
    /\ inFlight' = 0
    /\ UNCHANGED <<auxVars, handleVars, upVars, call, reqOwner, reqKind, attempts, n_past_retries,
                   outcomes, reqResult, delay, startConfig, reqUrl, callTimeout, waitId,
                   max_duration, poll_interval, now, nextTick, fetches, lastFetch, served,
                   fetchFailed>>

\* Time passes while a wait is running.
Advance ==
    /\ waitPc \in {"tick", "fetch"}
    /\ now < MaxTime
    /\ now' = now + 1
    /\ UNCHANGED <<auxVars, handleVars, upVars, call, reqVars, waitPc, waitId, max_duration,
                   poll_interval, nextTick, fetches, lastFetch, inFlight, served, fetchFailed,
                   waitResult>>

\* ---- PredictionBuilder::send_and_wait / send_and_wait_with_timeout ----

\* self.api.create(self.request) is sent first; the wait that follows gets
\* max_duration md and no poll interval.
StartSendAndWait(name, md) ==
    /\ call = "none"
    /\ call' = name
    /\ max_duration' = md
    /\ poll_interval' = DefaultPollInterval
    /\ waitPc' = "creating"
    /\ SendFirstAttempt("send", Create)
    /\ UNCHANGED <<auxVars, handleVars, upVars, waitId, now, nextTick, fetches, lastFetch, inFlight, served,
                   fetchFailed, waitResult>>

\* send_and_wait: wait_for_completion(&prediction.id, None, None)
SendAndWait == StartSendAndWait("send_and_wait", NoneD)

\* send_and_wait_with_timeout: wait_for_completion(&prediction.id, Some(max_duration), None)
SendAndWaitWithTimeout(d) == StartSendAndWait("send_and_wait_with_timeout", SomeD(d))

\* create returns: its error is returned, or the wait on prediction.id starts.
CreateReturns(o) ==
    /\ waitPc = "creating"
    /\ reqPc = "inflight"
    /\ reqOwner = "send"
    /\ ~WillRetry(o)
    /\ LET r == JsonResult(o) IN
       IF r.ok
       THEN /\ BeginWait(r.value.id)
            /\ RequestReturned(o, FALSE)
       ELSE /\ waitResult' = Err(r.err)
            /\ waitPc' = "done"
            /\ RequestReturned(o, TRUE)
            /\ UNCHANGED <<waitId, now, nextTick, fetches, lastFetch, inFlight, served, fetchFailed>>
    /\ UNCHANGED <<auxVars, handleVars, upVars, call, max_duration, poll_interval>>

\* The caller takes the result; the client is free for the next call.
Finish ==
    /\ \/ call = "request" /\ reqPc = "returned"
       \/ call = "create" /\ (create.pc = "done" \/ reqPc = "returned")
       \/ call = "process_file_input" /\ create.pc = "done"
       \/ call = "list" /\ reqPc = "returned"
       \/ call = "upload" /\ upPc = "returned"
       \/ call \in {"wait", "send_and_wait", "send_and_wait_with_timeout"} /\ waitPc = "done"
    /\ call' = "none"
    /\ IdleRequest
    /\ waitPc' = "idle"
    /\ waitId' = ""
    /\ max_duration' = NoneD
    /\ poll_interval' = DefaultPollInterval
    /\ now' = 0
    /\ nextTick' = 0
    /\ fetches' = 0
    /\ lastFetch' = 0
    /\ inFlight' = 0
    /\ served' = <<>>
    /\ fetchFailed' = FALSE
    /\ waitResult' = NoResult
    /\ upPc' = "idle"
    /\ upAttempts' = 0
    /\ upOutcome' = Failure("none")
    /\ upResult' = NoUpload
    /\ lastResult' = NoCall
    /\ create' = NoCreate
    /\ page' = IF call = "list" /\ reqResult.ok THEN reqResult.value ELSE page
    /\ other' = other
    /\ UNCHANGED <<http_config, client, api_token, base_url, clone, client_http>>

Requests == {Create} \cup {Get(id) : id \in Ids}

Next ==
    \/ \E kind \in Requests : StartRequest(kind)
    \/ \E o \in WaitOutcomes(reqKind) : AttemptRetried(o)
    \/ RetryAfterDelay
    \/ \E o \in WaitOutcomes(reqKind) : RequestReturns(o)
    \/ \E id \in Ids, md \in MaxDurations, pi \in PollIntervals : StartWait(id, md, pi)
    \/ TickFires
    \/ \E o \in WaitOutcomes(reqKind) : FetchReturns(o)
    \/ Timeout
    \/ Advance
    \/ SendAndWait
    \/ SendAndWaitWithTimeout(MaxDur)
    \/ \E o \in WaitOutcomes(reqKind) : CreateReturns(o)
    \/ Finish

Spec == Init /\ [][Next]_vars

\* The JSON request path alone: requests of the caller on transports built
\* with up to MaxRetriesRequest retries.
RetryInit == InitWith(MaxRetriesRequest)

RetryNext ==
    \/ \E kind \in Requests : StartRequest(kind)
    \/ \E o \in Outcomes(reqKind) : AttemptRetried(o)
    \/ RetryAfterDelay
    \/ \E o \in Outcomes(reqKind) : RequestReturns(o)
    \/ Finish

RetrySpec == RetryInit /\ [][RetryNext]_vars

\* The JSON request path and the multipart path over every class of response
\* status.
StatusInit == InitWith(MaxRetriesStatus)

StatusNext ==
    \/ \E kind \in Requests : StartRequest(kind)
    \/ \E o \in StatusOutcomes(reqKind) : AttemptRetried(o)
    \/ RetryAfterDelay
    \/ \E o \in StatusOutcomes(reqKind) : RequestReturns(o)
    \/ StartUpload
    \/ \E o \in UploadOutcomes(UploadCodes, callTimeout) : UploadReturns(o)
    \/ Finish

StatusSpec == StatusInit /\ [][StatusNext]_vars

\* The JSON request path on transports built by with_retry_config from retry
\* bounds with min_delay <= max_delay.
BackoffConfigs ==
    {HttpConfig(RetryConfig(m, mn, mx, b), DefaultTimeoutConfig) :
        m \in 0..MaxRetriesBackoff, mn \in {0, 1, 2}, mx \in {2, 4}, b \in {1, 2, 3}}

\* No call of the caller is running on the handle.
NothingRunning ==
    /\ call = "none"
    /\ create = NoCreate
    /\ reqPc = "idle"
    /\ reqOwner = "none"
    /\ reqKind = NoRequest
    /\ attempts = 0
    /\ n_past_retries = 0
    /\ outcomes = <<>>
    /\ reqResult = NoResult
    /\ waitPc = "idle"
    /\ waitId = ""
    /\ max_duration = NoneD
    /\ poll_interval = DefaultPollInterval
    /\ now = 0
    /\ nextTick = 0
    /\ fetches = 0
    /\ lastFetch = 0
    /\ inFlight = 0
    /\ served = <<>>
    /\ fetchFailed = FALSE
    /\ waitResult = NoResult

BackoffInit ==
    /\ \E config \in BackoffConfigs : InitHandle("tok", config)
    /\ NothingRunning

BackoffNext ==
    \/ StartRequest(Create)
    \/ \E o \in BackoffOutcomes(reqKind) : AttemptRetried(o)
    \/ RetryAfterDelay
    \/ \E o \in BackoffOutcomes(reqKind) : RequestReturns(o)
    \/ Finish

BackoffSpec == BackoffInit /\ [][BackoffNext]_vars

\* Constructor calls, and requests on the handles they return.
CtorInit ==
    /\ InitHandle("tok", HttpConfig(DefaultRetryConfig, DefaultTimeoutConfig))
    /\ NothingRunning

CtorNext ==
    \/ \E ctor \in Constructors, token \in Tokens, retry \in RetryArgs,
          timeout \in TimeoutArgs, url \in BaseUrls, buildOk \in BOOLEAN :
          Construct(ctor, token, retry, timeout, url, buildOk)
    \/ StartRequest(Create)
    \/ \E o \in BackoffOutcomes(reqKind) : AttemptRetried(o)
    \/ RetryAfterDelay
    \/ \E o \in BackoffOutcomes(reqKind) : RequestReturns(o)
    \/ Finish

CtorSpec == CtorInit /\ [][CtorNext]_vars

\* Clone and configure calls on handles built by with_http_config, with
\* requests and uploads running on the first handle.
ConfigInit ==
    /\ \E retry \in RetryArgs, timeout \in TimeoutArgs :
          InitHandle("tok", HttpConfig(retry, timeout))
    /\ NothingRunning

ConfigNext ==
    \/ CloneClient
    \/ \E h \in Handles, retry \in RetryArgs, buildOk \in BOOLEAN :
          ConfigureRetriesAdvanced(h, retry.max_retries, retry.min_delay, retry.max_delay,
                                   retry.base_multiplier, buildOk)
    \/ \E h \in Handles, retry \in RetryArgs, buildOk \in BOOLEAN :
          ConfigureRetries(h, retry.max_retries, retry.min_delay, retry.max_delay, buildOk)
    \/ \E h \in Handles, timeout \in TimeoutArgs, buildOk \in BOOLEAN :
          ConfigureTimeouts(h, timeout.connect_timeout, timeout.request_timeout, buildOk)
    \/ StartRequest(Create)
    \/ \E o \in ConfigOutcomes(callTimeout) : AttemptRetried(o)
    \/ RetryAfterDelay
    \/ \E o \in ConfigOutcomes(callTimeout) : RequestReturns(o)
    \/ StartUpload
    \/ \E o \in UploadOutcomes({503}, callTimeout) : UploadReturns(o)
    \/ Finish

ConfigSpec == ConfigInit /\ [][ConfigNext]_vars

\* Constructions and reconfigurations with arbitrary retry bounds, those with
\* min_delay > max_delay included: RetryConfig has public fields and the
\* configure calls take the two durations as they come.
InvalidRetryArgs == {RetryConfig(m, 4, 2, 2) : m \in 0..MaxRetriesConfig}

BoundsInit == CtorInit

BoundsNext ==
    \/ \E ctor \in {"with_retry_config", "with_http_config", "Client::with_http_config"},
          token \in Tokens, retry \in RetryArgs \cup InvalidRetryArgs,
          timeout \in TimeoutArgs, url \in BaseUrls, buildOk \in BOOLEAN :
          Construct(ctor, token, retry, timeout, url, buildOk)
    \/ CloneClient
    \/ \E h \in Handles, retry \in RetryArgs \cup InvalidRetryArgs, buildOk \in BOOLEAN :
          ConfigureRetriesAdvanced(h, retry.max_retries, retry.min_delay, retry.max_delay,
                                   retry.base_multiplier, buildOk)
    \/ \E h \in Handles, retry \in RetryArgs \cup InvalidRetryArgs, buildOk \in BOOLEAN :
          ConfigureRetries(h, retry.max_retries, retry.min_delay, retry.max_delay, buildOk)
    \/ \E retry \in RetryArgs \cup InvalidRetryArgs, buildOk \in BOOLEAN :
          ClientConfigureRetries(retry.max_retries, retry.min_delay, retry.max_delay, buildOk)

BoundsSpec == BoundsInit /\ [][BoundsNext]_vars

\* File inputs: PredictionsApi::create with file inputs under both
\* strategies, and process_file_input called directly.
HelloWorld == <<72, 101, 108, 108, 111, 44, 32, 87, 111, 114, 108, 100, 33>>

\* The byte strings explored: all of up to MaxBytes bytes over three byte
\* values, and "Hello, World!".
ByteStrings ==
    UNION {[1..n -> {0, 72, 255}] : n \in 0..MaxBytes} \cup {HelloWorld}

FileInputs ==
    {FileInput("Url", "https://example.com/a.png", <<>>, NoneS, NoneS)}
    \cup {FileInput("Path", path, <<>>, NoneS, NoneS) : path \in {"a.txt", "a"}}
    \cup {FileInput("Bytes", "", data, filename, content_type) :
             data \in ByteStrings, filename \in {NoneS, SomeS("a.png")},
             content_type \in {NoneS, SomeS("text/plain")}}

\* The file inputs given to create: one of each variant.
CreateFileInputs ==
    {FileInput("Url", "https://example.com/a.png", <<>>, NoneS, NoneS),
     FileInput("Path", "a.txt", <<>>, NoneS, NoneS),
     FileInput("Bytes", "", HelloWorld, NoneS, SomeS("text/plain"))}

FileKeys == {"image", "mask"}

\* What tokio::fs::read can return for a path: an error or the content.
Reads == {[ok |-> FALSE, data |-> <<>>]} \cup {[ok |-> TRUE, data |-> d] : d \in {<<>>, <<72>>}}

\* What the service can answer to the upload of a file input.
FileUploadOutcomes ==
    {Response(201, NoPrediction, t) : t \in {FileJson, FileNoUrlJson}}
    \cup {Response(503, NoPrediction, PlainText), Failure("network")}

Strategies == {"Base64DataUrl", "Multipart"}

FileInit == InitWith(MaxRetriesStatus)

FileNext ==
    \/ \E keys \in SUBSET FileKeys :
          \E file_inputs \in [keys -> CreateFileInputs],
             pending \in {p \in [1..Cardinality(keys) -> keys] :
                             \A i, j \in DOMAIN p : i # j => p[i] # p[j]},
             strategy \in Strategies :
             StartCreate(file_inputs, pending, strategy)
    \/ \E file_input \in FileInputs, strategy \in Strategies, uploader \in BOOLEAN :
          StartProcessFileInput(file_input, strategy, uploader)
    \/ \E read \in Reads : ProcessFileInput(read)
    \/ \E o \in FileUploadOutcomes : UploadReturns(o)
    \/ FileUploaded
    \/ PostCreate
    \/ \E o \in ConfigOutcomes(callTimeout) : AttemptRetried(o)
    \/ RetryAfterDelay
    \/ \E o \in ConfigOutcomes(callTimeout) : RequestReturns(o)
    \/ Finish

FileSpec == FileInit /\ [][FileNext]_vars

\* Listing predictions page by page on clients built with the default base
\* URL or with a custom one, with and without a trailing slash.
ListBaseUrls ==
    BaseUrls \cup {<<"http:", "/", "/", "localhost", "/">>}

\* The pages the service answers with: next and previous are absent or the
\* URL of a page on the service.
PageUrls ==
    {url \o <<"/", "v1", "/", "predictions?cursor=c1">> : url \in {DefaultBaseUrl} \cup BaseUrls}

Pages ==
    {Page(next, previous) : next \in {NoCursor} \cup {SomeCursor(u) : u \in PageUrls},
                            previous \in {NoCursor} \cup {SomeCursor(u) : u \in PageUrls}}

ListOutcomes ==
    {Response(200, p, "") : p \in Pages}
    \cup {Response(c, NoPrediction, PlainText) : c \in {404, 503}}

ListInit == InitWith(MaxRetriesStatus)

ListNext ==
    \/ \E ctor \in {"new", "with_base_url"}, url \in ListBaseUrls :
          Construct(ctor, "tok", DefaultRetryConfig, DefaultTimeoutConfig, url, TRUE)
    \/ \E cursor \in {NoCursor, page.next, page.previous} : StartList(cursor)
    \/ \E o \in ListOutcomes : AttemptRetried(o)
    \/ RetryAfterDelay
    \/ \E o \in ListOutcomes : RequestReturns(o)
    \/ Finish

ListSpec == ListInit /\ [][ListNext]_vars

\* Two requests at a time: the caller's on the first handle, a second task's
\* on the first handle or on its clone.
ConcurrentInit == ConfigInit

ConcurrentNext ==
    \/ CloneClient
    \/ StartRequest(Create)
    \/ \E o \in ConfigOutcomes(NoTimeouts) : AttemptRetried(o)
    \/ RetryAfterDelay
    \/ \E o \in ConfigOutcomes(NoTimeouts) : RequestReturns(o)
    \/ Finish
    \/ \E h \in Handles : StartOther(h)
    \/ \E o \in ConfigOutcomes(NoTimeouts) : OtherAttemptEnds(o)
    \/ OtherRetryAfterDelay
    \/ OtherFinish

ConcurrentSpec == ConcurrentInit /\ [][ConcurrentNext]_vars

\* A Client built by Client::with_http_config, configure calls on it, and
\* requests made through client.predictions().
ClientInit ==
    /\ \E retry \in RetryArgs, timeout \in TimeoutArgs :
          InitHandleOf("tok", HttpConfig(retry, timeout),
                       ClientHandle(HttpConfig(retry, timeout)))
    /\ NothingRunning

ClientNext ==
    \/ \E retry \in RetryArgs, buildOk \in BOOLEAN :
          ClientConfigureRetries(retry.max_retries, retry.min_delay, retry.max_delay, buildOk)
    \/ \E timeout \in TimeoutArgs, buildOk \in BOOLEAN :
          ClientConfigureTimeouts(timeout.connect_timeout, timeout.request_timeout, buildOk)
    \/ StartRequest(Create)
    \/ \E o \in ConfigOutcomes(callTimeout) : AttemptRetried(o)
    \/ RetryAfterDelay
    \/ \E o \in ConfigOutcomes(callTimeout) : RequestReturns(o)
    \/ Finish

ClientSpec == ClientInit /\ [][ClientNext]_vars

\* The timers of the runtime fire and the loop is polled when it can proceed.
FairSpec == Spec /\ WF_vars(Advance) /\ WF_vars(Timeout) /\ WF_vars(TickFires)

TypeOK ==
    /\ create.pc \in {"idle", "building", "files", "uploading", "posting", "done"}
    /\ create.reads \in 0..2 /\ create.uploads \in 0..2
    /\ reqPc \in {"idle", "inflight", "backoff", "returned", "dropped"}
    /\ waitPc \in {"idle", "creating", "tick", "fetch", "done"}
    /\ attempts \in 0..(MaxRetriesRequest + 1)
    /\ now \in 0..MaxTime


\* ---- properties of wait_for_completion ----

LastOutcome == outcomes[Len(outcomes)]
LastServed == served[Len(served)]
NonTerminal == {"starting", "processing"}
AllButLastNonTerminal == \A i \in 1..(Len(served) - 1) : served[i] \in NonTerminal

\* C1: when the status source has answered n non-terminal snapshots and then
\* a Succeeded one (no fetch failed, no deadline elapsed), the wait has
\* returned, it made exactly n+1 status fetches, and its result is Ok with the
\* snapshot of fetch n+1 unchanged.
C1_SucceededAfterNPolls ==
    (/\ Len(served) > 0
     /\ LastServed = "succeeded"
     /\ AllButLastNonTerminal
     /\ ~fetchFailed)
    => /\ waitPc = "done"
       /\ fetches = Len(served)
       /\ reqPc = "returned"
       /\ waitResult = Ok(LastOutcome.body)
       /\ waitResult.value.status = "succeeded"

\* The spec's case: Processing twice, then Succeeded, three fetches.
C1_Witness ==
    /\ call = "wait"
    /\ waitPc = "done"
    /\ served = <<"processing", "processing", "succeeded">>
    /\ fetches = 3
    /\ waitResult.ok

\* C2: when a status fetch has returned a Failed snapshot, the wait has ended
\* with a ModelExecution error carrying the waited id and that snapshot's
\* error message and logs, and no status fetch was started after it.
C2_FailedReportedOnce ==
    (Len(served) > 0 /\ LastServed = "failed")
    => /\ waitPc = "done"
       /\ ~waitResult.ok
       /\ waitResult.err.kind = "ModelExecution"
       /\ waitResult.err.prediction_id = waitId
       /\ waitResult.err.error_message = LastOutcome.body.error
       /\ waitResult.err.logs = LastOutcome.body.logs
       /\ fetches = Len(served)
       /\ inFlight = 0
       /\ reqPc = "returned"

\* Failed with error message "boom" after one non-terminal snapshot.
C2_Witness ==
    /\ waitPc = "done"
    /\ served = <<"starting", "failed">>
    /\ fetches = 2
    /\ waitResult.err.kind = "ModelExecution"
    /\ waitResult.err.error_message = SomeS("boom")
    /\ waitResult.err.logs = SomeS("log")

\* C3: when a status fetch has returned a Canceled snapshot the wait has
\* returned Ok with that snapshot, status still Canceled; a ModelExecution
\* error is returned for a Failed snapshot only, every other terminal
\* snapshot is returned as Ok.
C3_CanceledIsOk ==
    /\ (Len(served) > 0 /\ LastServed = "canceled")
       => /\ waitPc = "done"
          /\ waitResult = Ok(LastOutcome.body)
          /\ waitResult.value.status = "canceled"
    /\ (Len(served) > 0 /\ LastServed \in {"succeeded", "canceled"}) => waitResult.ok
    /\ waitResult.err.kind = "ModelExecution" => (Len(served) > 0 /\ LastServed = "failed")

C3_Witness ==
    /\ waitPc = "done"
    /\ Len(served) = 2
    /\ LastServed = "canceled"
    /\ waitResult.ok
    /\ waitResult.value.status = "canceled"


Terminal == {"succeeded", "failed", "canceled"}
AllServedNonTerminal == \A i \in 1..Len(served) : served[i] \in NonTerminal

\* The wait loop itself has run (the call did not end in the create of
\* send_and_wait).
WaitRan == waitPc \in {"tick", "fetch", "done"} /\ reqOwner # "send"

C4_TimeoutNamesIdAndDuration ==
    (/\ waitPc = "done"
     /\ WaitRan
     /\ max_duration.some
     /\ AllServedNonTerminal
     /\ ~fetchFailed)
    => /\ ~waitResult.ok
       /\ waitResult.err.kind = "Timeout"
       /\ waitResult.err.prediction_id = waitId
       /\ waitResult.err.duration = max_duration.v

\* C4: a wait with max_duration = Some(d) eventually returns, and when every
\* status fetch returned a non-terminal snapshot it returns a Timeout error
\* that names the prediction id and the duration d, never Ok.
C4_TimeoutWhenNeverTerminal ==
    /\ [](C4_TimeoutNamesIdAndDuration)
    /\ ((waitPc \in {"tick", "fetch"} /\ max_duration.some) ~> (waitPc = "done"))

\* A wait with max_duration one tick that saw a non-terminal snapshot and
\* timed out.
C4_Witness ==
    /\ call = "wait"
    /\ waitPc = "done"
    /\ max_duration = SomeD(1)
    /\ Len(served) >= 1
    /\ AllServedNonTerminal
    /\ waitResult.err.kind = "Timeout"
    /\ waitResult.err.duration = 1

\* C5: with max_duration = None the wait returns only on a terminal snapshot
\* or on the error of a status fetch, never with Timeout; while all snapshots
\* are non-terminal and no fetch failed it has not returned. send_and_wait
\* waits with max_duration = None.
C5_UnboundedWithoutMaxDuration ==
    /\ call = "send_and_wait" => max_duration = NoneD
    /\ ~max_duration.some => waitResult.err.kind # "Timeout"
    /\ (/\ call \in {"wait", "send_and_wait"}
        /\ ~max_duration.some
        /\ WaitRan
        /\ waitPc = "done")
       => \/ fetchFailed
          \/ Len(served) > 0 /\ LastServed \in Terminal

\* send_and_wait still polling at the end of the explored time, after four
\* non-terminal snapshots.
C5_Witness ==
    /\ call = "send_and_wait"
    /\ waitPc = "tick"
    /\ now = MaxTime
    /\ fetches = MaxTime + 1
    /\ Len(served) = fetches
    /\ AllServedNonTerminal

\* C6: at most one status fetch of a wait is in flight, and a status fetch
\* starts only when every earlier one has returned a non-terminal snapshot.
C6_SequentialFetches ==
    /\ [](inFlight <= 1)
    /\ [][fetches' = fetches + 1
          => /\ inFlight = 0
             /\ reqPc = "idle"
             /\ Len(served) = fetches
             /\ AllServedNonTerminal
             /\ ~fetchFailed]_vars

\* The second fetch is in flight, the first has returned.
C6_Witness ==
    /\ waitPc = "fetch"
    /\ fetches = 2
    /\ inFlight = 1
    /\ Len(served) = 1


\* ---- properties of the JSON request path ----

MaxRetries == http_config.retry.max_retries
IsStatus(o, code) == o.kind = "status" /\ o.code = code

\* Attempt i of the current request was retried.
Retried(i) == i < Len(outcomes) \/ (i = Len(outcomes) /\ reqPc = "backoff")

\* An attempt outcome that is a failure the retry layer may retry: no
\* response, 429 or a server error.
TransientFailure(o) ==
    \/ o.kind \in {"network", "timeout"}
    \/ o.kind = "status" /\ (o.code = 429 \/ o.code \in 500..599)

\* C7: a request whose first response is 404 has returned after exactly one
\* attempt with the error Api, status 404, whatever max_retries is.
C7_NotFoundNotRetried ==
    (Len(outcomes) >= 1 /\ IsStatus(outcomes[1], 404))
    => /\ reqPc = "returned"
       /\ attempts = 1
       /\ Len(outcomes) = 1
       /\ ~reqResult.ok
       /\ reqResult.err.kind = "Api"
       /\ reqResult.err.status = 404

\* A 404 on a transport that would retry three times.
C7_Witness ==
    /\ reqPc = "returned"
    /\ MaxRetries = MaxRetriesRequest
    /\ Len(outcomes) = 1
    /\ IsStatus(outcomes[1], 404)
    /\ reqResult.err.status = 404

AllBeforeLast503 == \A i \in 1..(Len(outcomes) - 1) : IsStatus(outcomes[i], 503)

\* C8: a request answered 503 on k <= max_retries attempts and then 200
\* returns Ok with the payload of the 200 response: a 503 is returned to the
\* caller only from attempt max_retries + 1, and after the 503s the 200 is
\* returned as Ok with its body.
C8_SucceedsAfter503s ==
    /\ (/\ reqPc = "returned"
        /\ AllBeforeLast503
        /\ IsStatus(LastOutcome, 503))
       => Len(outcomes) = MaxRetries + 1
    /\ (/\ reqPc = "returned"
        /\ AllBeforeLast503
        /\ IsStatus(LastOutcome, 200)
        /\ LastOutcome.body # Malformed)
       => reqResult = Ok(LastOutcome.body)

\* The spec's case: 503 three times, then 200, with max_retries = 3.
C8_Witness ==
    /\ reqPc = "returned"
    /\ MaxRetries = 3
    /\ Len(outcomes) = 4
    /\ \A i \in 1..3 : IsStatus(outcomes[i], 503)
    /\ IsStatus(outcomes[4], 200)
    /\ reqResult.ok
    /\ reqResult.value = outcomes[4].body

C11_RetriedIffListedTransient ==
    /\ \A i \in 1..Len(outcomes) : Retried(i) => TransientFailure(outcomes[i])
    /\ (reqPc = "returned" /\ TransientFailure(LastOutcome))
          => n_past_retries = MaxRetries
    /\ (reqPc = "returned" /\ IsStatus(outcomes[1], 408)) => attempts = 1
    /\ (reqPc = "returned" /\ IsStatus(outcomes[1], 409)) => attempts = 1

\* ---- properties of the backoff ----

C13_UploadSingleAttempt ==
    /\ upPc # "idle" => upAttempts = 1
    /\ (upPc = "returned" /\ TransientFailure(upOutcome)) =>
          /\ ~upResult.ok
          /\ upOutcome.kind = "status" =>
                (upResult.err.kind = "Api" /\ upResult.err.status = upOutcome.code)
          /\ upOutcome.kind # "status" => upResult.err.kind = "Http"

\* An upload on a transport that allows a retry was answered 503 and has
\* returned after its only attempt.
C13_Witness ==
    /\ upPc = "returned"
    /\ IsStatus(upOutcome, 503)
    /\ MaxRetries >= 1
    /\ upAttempts = 1
    /\ upResult.err.status = 503

\* C14: every HTTP call in flight, of a JSON request or of an upload, runs
\* under the connect_timeout and request_timeout of the current
\* TimeoutConfig of the transport.
C14_CallsUnderTimeoutConfig ==
    (reqPc = "inflight" \/ upPc = "inflight") => callTimeout = http_config.timeout

\* The error kind of a final response of the given status code and text.
StatusErrorAsClaimed(code, text, err) ==
    IF code \in {401, 402, 403}
    THEN err.kind = "Auth"
    ELSE /\ err.kind = "Api"
         /\ err.status = code
         /\ code = 422 => err.detail = SomeS(text)

\* C15: a request or an upload whose final response is 401, 402 or 403
\* returns an Auth error; for any other non-2xx final status it returns an
\* Api error with that status, whose detail is the response text for 422.
C15_AuthAndApiErrors ==
    /\ (reqPc = "returned" /\ LastOutcome.kind = "status" /\ ~is_success(LastOutcome.code))
          => StatusErrorAsClaimed(LastOutcome.code, LastOutcome.text, reqResult.err)
    /\ (upPc = "returned" /\ upOutcome.kind = "status" /\ ~is_success(upOutcome.code))
          => StatusErrorAsClaimed(upOutcome.code, upOutcome.text, upResult.err)

\* C16: a request or an upload whose last attempt ran into the connect or
\* request timeout returns an error of kind Timeout.
C16_RequestTimeoutIsTimeoutKind ==
    /\ (reqPc = "returned" /\ LastOutcome.kind = "timeout") => reqResult.err.kind = "Timeout"
    /\ (upPc = "returned" /\ upOutcome.kind = "timeout") => upResult.err.kind = "Timeout"

\* ---- properties of constructors, clones and configure calls ----

\* C17: whatever the constructor and its other arguments, a call with an
\* empty token returns an Auth error and leaves no handle; a call with a
\* non-empty token whose client builds returns Ok and a handle with that token.
C17_EmptyTokenIsAuthError ==
    [][\A ctor \in Constructors :
          /\ (\E retry \in RetryArgs, timeout \in TimeoutArgs, url \in BaseUrls,
                  buildOk \in BOOLEAN :
                  Construct(ctor, "", retry, timeout, url, buildOk)) =>
                    /\ ~lastResult'.ok
                    /\ lastResult'.err.kind = "Auth"
                    /\ api_token' = "" /\ client' = NoConfig /\ http_config' = NoConfig
          /\ \A retry \in RetryArgs, timeout \in TimeoutArgs :
                (\E url \in BaseUrls : Construct(ctor, "tok", retry, timeout, url, TRUE)) =>
                    /\ lastResult'.ok
                    /\ api_token' = "tok"
                    /\ http_config' = CtorConfig(ctor, retry, timeout)
                    /\ client' = http_config']_vars

\* A constructor was called with an empty token: Auth error, no handle.
C17_Witness ==
    /\ lastResult.called
    /\ ~lastResult.ok
    /\ lastResult.err = auth_error("API token cannot be empty")
    /\ api_token = ""
    /\ client = NoConfig

\* The wait before retry n of the current request under the configuration
\* it started with.
StartDelays(n) ==
    startConfig.retry.min_delay ..
        Min(startConfig.retry.max_delay,
            startConfig.retry.min_delay * Pow(startConfig.retry.base_multiplier, n))

\* C18: a request that has started runs to its end on the client it started
\* on: whatever is configured on the other handle meanwhile, the request is
\* not dropped, retries exactly while the max_retries it started with allows,
\* and waits delays within the bounds it started with.
C18_RequestKeepsStartPolicy ==
    /\ reqPc # "dropped"
    /\ reqPc \in {"inflight", "backoff", "returned"} =>
          /\ client = startConfig
          /\ n_past_retries <= startConfig.retry.max_retries
          /\ attempts <= startConfig.retry.max_retries + 1
          /\ reqPc = "backoff" => delay \in StartDelays(n_past_retries - 1)
          /\ (reqPc = "returned" /\ TransientFailure(LastOutcome))
                => attempts = startConfig.retry.max_retries + 1

\* A configure call on the clone returned Ok while the request was in
\* flight; the clone now allows a different number of retries and other
\* delays, and the request has used up the retries it started with.
C18_Witness ==
    /\ reqPc = "returned"
    /\ TransientFailure(LastOutcome)
    /\ lastResult.ok
    /\ lastResult.during = "request"
    /\ clone.exists
    /\ clone.client.retry.max_retries # startConfig.retry.max_retries
    /\ clone.client.retry.min_delay # startConfig.retry.min_delay
    /\ attempts = startConfig.retry.max_retries + 1
    /\ attempts = 2

\* C19: once a clone exists, no step changes the configuration or the client
\* of both handles: a configure call on one leaves http_config (retry and
\* timeout) and client of the other as they were, and the policy of a
\* request running on the first handle is not touched by the clone.
C19_CloneIsSnapshot ==
    [][(clone.exists /\ clone'.exists) =>
          /\ clone' # clone => (http_config' = http_config /\ client' = client
                                  /\ startConfig' = startConfig)
          /\ (http_config' # http_config \/ client' # client) => clone' = clone]_vars

\* Both handles were configured after the clone was made and now differ in
\* retry policy and in timeouts.
C19_Witness ==
    /\ clone.exists
    /\ lastResult.ok
    /\ clone.http_config.retry # http_config.retry
    /\ clone.http_config.timeout # http_config.timeout
    /\ clone.client = clone.http_config
    /\ client = http_config

\* C20: the stored http_config is the configuration the active client was
\* built from, and after a configure call returned Ok every call then
\* started on the handle, request or upload, runs under the retry and
\* timeout settings the accessors report.
C20_ConfigureTakesEffect ==
    /\ client = build_client_with_config(http_config)
    /\ clone.exists => clone.client = build_client_with_config(clone.http_config)
    /\ (lastResult.ok /\ lastResult.during = "none") =>
          /\ reqPc \in {"inflight", "backoff"} =>
                (startConfig = http_config /\ callTimeout = http_config.timeout)
          /\ upPc = "inflight" => callTimeout = http_config.timeout

\* ---- properties of Client ----

\* C21: a request made through client.predictions() runs under the retry
\* and timeout settings of the Client, those its accessors report, also
\* after Client::configure_retries or Client::configure_timeouts returned Ok.
C21_ClientSettingsReachRequests ==
    (client_http.exists /\ reqPc \in {"inflight", "backoff"}) =>
        /\ startConfig.retry = client_http.http_config.retry
        /\ callTimeout = client_http.http_config.timeout

\* The retry configurations held by the handles that exist.
HeldRetryConfigs ==
    (IF api_token # "" THEN {http_config.retry, client.retry} ELSE {})
    \cup (IF clone.exists THEN {clone.http_config.retry, clone.client.retry} ELSE {})
    \cup (IF client_http.exists
          THEN {client_http.http_config.retry, client_http.client.retry} ELSE {})

\* C22: after any constructions and reconfigurations no transport holds a
\* retry configuration with min_delay > max_delay, and a construction or
\* reconfiguration given such bounds is rejected with an error value.
C22_MinDelayAtMostMaxDelay ==
    /\ \A r \in HeldRetryConfigs : r.min_delay <= r.max_delay
    /\ lastResult.called => ~lastResult.panicked


\* Some file input of the create in progress is a Url.
HasUrlInput ==
    \E k \in DOMAIN create.file_inputs : create.file_inputs[k].tag = "Url"

\* A direct process_file_input of a Url has returned.
UrlEncodingDone ==
    /\ create.op = "process_file_input"
    /\ create.pc = "done"
    /\ create.file_inputs["file"].tag = "Url"

\* The Url half of C23: the encoding of a Url fails with InvalidInput under
\* both strategies, with or without an uploader, with no HTTP request sent
\* and no file read.
UrlEncodingFails ==
    UrlEncodingDone =>
        /\ ~create.result.ok
        /\ create.result.err.kind = "InvalidInput"
        /\ create.uploads = 0 /\ upAttempts = 0 /\ attempts = 0
        /\ create.reads = 0

C24_BytesEncodeToDataUrl ==
    (/\ create.op = "process_file_input"
     /\ create.pc = "done"
     /\ create.strategy = "Base64DataUrl"
     /\ create.file_inputs["file"].tag = "Bytes") =>
        LET file_input == create.file_inputs["file"]
            content_type == IF file_input.content_type.some THEN file_input.content_type.v
                            ELSE "application/octet-stream"
        IN  /\ create.result.ok
            /\ create.result.value =
                   "data:" \o content_type \o ";base64," \o Base64(file_input.data)
            /\ Len(create.result.value) =
                   Len("data:") + Len(content_type) + Len(";base64,")
                   + 4 * ((Len(file_input.data) + 2) \div 3)
            /\ (file_input.data = HelloWorld /\ content_type = "text/plain") =>
                   create.result.value = "data:text/plain;base64,SGVsbG8sIFdvcmxkIQ=="
            /\ create.uploads = 0 /\ upAttempts = 0 /\ attempts = 0
            /\ create.reads = 0

\* "Hello, World!" with a filename and text/plain was encoded inline.
C24_Witness ==
    /\ create.op = "process_file_input"
    /\ create.pc = "done"
    /\ create.strategy = "Base64DataUrl"
    /\ create.file_inputs["file"].tag = "Bytes"
    /\ create.file_inputs["file"].data = HelloWorld
    /\ create.file_inputs["file"].filename.some
    /\ create.result = StrOk("data:text/plain;base64,SGVsbG8sIFdvcmxkIQ==")


C26_FilesResolvedBeforeSubmit ==
    create.op = "create" =>
        /\ create.pc \in {"files", "uploading", "done"} =>
              /\ attempts = 0 /\ reqPc = "idle"
              /\ create.body.fields = {}
        /\ create.pc = "posting" =>
              /\ attempts >= 1
              /\ create.pending = <<>>
              /\ upPc # "inflight"
              /\ create.uploads = IF create.strategy = "Multipart"
                                  THEN Cardinality(DOMAIN create.file_inputs) ELSE 0
              /\ create.body.fields = {"version", "input"}
              /\ DOMAIN create.body.input = DOMAIN create.file_inputs \cup {"prompt"}
              /\ create.body.input["prompt"] = "a cat"
              /\ \A k \in DOMAIN create.file_inputs :
                    LET file_input == create.file_inputs[k] IN
                    IF create.strategy = "Multipart"
                    THEN create.body.input[k] = File.get.v
                    ELSE /\ file_input.tag = "Bytes" =>
                               create.body.input[k] =
                                   "data:text/plain;base64,SGVsbG8sIFdvcmxkIQ=="
                         /\ file_input.tag = "Path" =>
                               create.body.input[k] \in
                                   {"data:text/plain;base64,", "data:text/plain;base64,SA=="}

\* A create with two file inputs uploaded both, sent the POST, had it retried
\* and got the prediction.
C26_Witness ==
    /\ create.op = "create"
    /\ create.pc = "posting"
    /\ create.strategy = "Multipart"
    /\ Cardinality(DOMAIN create.file_inputs) = 2
    /\ create.uploads = 2
    /\ reqPc = "returned"
    /\ attempts = 2
    /\ reqResult.ok


\* C27: list(Some(cursor)), cursor being the next or previous URL of a page,
\* sends its request to exactly that URL; list(None) sends it to
\* /v1/predictions on the base URL.
C27_ListFollowsCursorVerbatim ==
    (call = "list" /\ reqPc # "idle") =>
        IF reqKind.cursor.some
        THEN reqUrl = reqKind.cursor.v
        ELSE reqUrl = trim_end_slashes(base_url) \o <<"/", "v1", "/", "predictions">>


\* C28: with two requests running at once on one transport or on clones of
\* it, each request is retried on its own count: it never makes more than
\* max_retries + 1 attempts, its counter is the number of its own attempts
\* that were retried, and it hands back a retryable failure only after
\* max_retries + 1 attempts of its own, whatever the other request did.
C28_RetryStatePerRequest ==
    LET policy == IF other.handle = "main" THEN client.retry ELSE clone.client.retry IN
    /\ reqPc \in {"inflight", "backoff", "returned"} =>
          /\ attempts <= client.retry.max_retries + 1
          /\ n_past_retries = IF reqPc = "backoff" THEN attempts ELSE attempts - 1
          /\ (reqPc = "returned" /\ Retryable(LastOutcome)) =>
                 attempts = client.retry.max_retries + 1
    /\ other.pc # "idle" =>
          /\ other.attempts <= policy.max_retries + 1
          /\ other.n_past_retries = IF other.pc = "backoff" THEN other.attempts
                                    ELSE other.attempts - 1
          /\ (other.pc = "returned" /\ Retryable(other.outcomes[Len(other.outcomes)])) =>
                 other.attempts = policy.max_retries + 1

\* Both requests ran at once on the same handle, each was retried and each
\* ended in a retryable failure after max_retries + 1 attempts of its own.
C28_Witness ==
    /\ reqPc = "returned" /\ Retryable(LastOutcome)
    /\ other.pc = "returned" /\ Retryable(other.outcomes[Len(other.outcomes)])
    /\ other.handle = "main"
    /\ client.retry.max_retries >= 1
    /\ attempts = client.retry.max_retries + 1
    /\ other.attempts = client.retry.max_retries + 1


\* C29: when the deadline of wait_for_completion fires while a status fetch
\* is in flight or between two of its attempts, the fetch is not cancelled:
\* the wait ends with the timeout error and the request goes on.
C29_TimeoutLeavesFetchRunning ==
    (waitPc = "done" /\ ~waitResult.ok /\ waitResult.err = TimeoutError(waitId, max_duration.v)) =>
        reqPc # "dropped"


\* C30: a status fetch of wait_for_completion runs through the retrying
\* transport. While attempts of it fail transiently and retries remain the
\* wait goes on with no result; a fetch that succeeds after such attempts
\* counts as any other. The wait ends with a transport error only on a fetch
\* whose last attempt failed and was not retryable or was attempt
\* max_retries + 1; the wait then returns the error of that attempt as the
\* transport made it, and no fetch is running or started after it.
C30_WaitFetchesAreRetried ==
    /\ (reqOwner = "wait" /\ reqPc \in {"inflight", "backoff"}) =>
          /\ waitPc = "fetch"
          /\ waitResult = NoResult
          /\ ~fetchFailed
          /\ Len(outcomes) = n_past_retries
          /\ n_past_retries <= MaxRetries
          /\ \A i \in 1..Len(outcomes) : TransientFailure(outcomes[i])
    /\ (waitPc = "done" /\ fetchFailed) =>
          /\ ~JsonResult(LastOutcome).ok
          /\ ~TransientFailure(LastOutcome) \/ attempts = MaxRetries + 1
          /\ waitResult = JsonResult(LastOutcome)
          /\ reqPc = "returned"
          /\ inFlight = 0
    /\ (waitPc = "done" /\ ~fetchFailed /\ reqPc = "returned" /\ reqOwner = "wait") =>
          /\ JsonResult(LastOutcome).ok
          /\ waitResult = TerminalResult(waitId, JsonResult(LastOutcome).value)
    /\ waitPc = "done" => reqPc \notin {"inflight", "backoff"}

\* A wait ended with the prediction of a fetch whose first attempt failed
\* transiently and was retried.
C30_Witness ==
    /\ call = "wait"
    /\ waitPc = "done"
    /\ waitResult.ok
    /\ Len(outcomes) = 2
    /\ TransientFailure(outcomes[1])
    /\ fetches >= 2


(***************************************************************************)
(* Polling interval of wait_for_completion                                 *)
(***************************************************************************)

\* The first tick of the interval is due as soon as the wait begins.
FirstTickDue == call = "wait" /\ waitPc = "tick" /\ fetches = 0 => TickReady

\* A step that starts a status fetch after an earlier one of the same wait.
LaterFetchStarts == call = "wait" /\ fetches >= 1 /\ fetches' = fetches + 1

\* C31: within one wait_for_completion the first status fetch is due at once,
\* and every later fetch starts at least poll_interval after the start of the
\* fetch before it, also after a fetch that took longer than poll_interval.
C31_FetchesStartPollIntervalApart ==
    [][/\ FirstTickDue
       /\ (LaterFetchStarts => now >= lastFetch + poll_interval)]_vars

\* C31: the first tick of every wait is due at once (the half that holds).
C31_FirstFetchImmediate == [][FirstTickDue]_vars



(***************************************************************************)
(* Outcome of a wait with a deadline                                       *)
(***************************************************************************)

\* A status fetch of the wait has returned a terminal snapshot.
TerminalServed == Len(served) > 0 /\ LastServed \in Terminal

\* The wait has returned the error of a failed status fetch.
FetchErrorReturned ==
    /\ fetchFailed
    /\ ~waitResult.ok
    /\ waitResult = reqResult
    /\ waitResult.err.kind \notin {"Timeout", "ModelExecution"}

\* The outcomes of one wait_for_completion call exclude each other.
ReturnedOutcomes ==
    {<<waitResult.ok, TerminalServed /\ LastServed # "failed">>,
     <<~waitResult.ok /\ waitResult.err.kind = "ModelExecution",
       TerminalServed /\ LastServed = "failed">>,
     <<FetchErrorReturned, fetchFailed>>,
     <<~waitResult.ok /\ waitResult.err.kind = "Timeout",
       max_duration.some /\ now >= max_duration.v /\ AllServedNonTerminal /\ ~fetchFailed>>}

C32_OutcomeOfReturnedWait ==
    /\ waitResult.err.kind = "Timeout"
       => /\ max_duration.some
          /\ now >= max_duration.v
          /\ AllServedNonTerminal
          /\ ~fetchFailed
    /\ TerminalServed
       => /\ waitPc = "done"
          /\ waitResult.ok \/ waitResult.err.kind = "ModelExecution"
    /\ (call = "wait" /\ waitPc \in {"tick", "fetch"}) => waitResult = NoResult
    /\ (call = "wait" /\ waitPc = "done")
       => /\ waitResult # NoResult
          /\ Cardinality({o \in ReturnedOutcomes : o[1]}) = 1
          /\ \A o \in ReturnedOutcomes : o[1] => o[2]

\* C32: a wait with max_duration = Some(d) returns Timeout only if d has
\* elapsed and no status fetch returned a terminal snapshot or an error
\* before; once a fetch has returned a terminal snapshot the outcome is Ok or
\* ModelExecution, never Timeout; every call returns exactly one of Ok,
\* ModelExecution, the error of a fetch, or Timeout, and keeps it.
C32_TimeoutOnlyWithoutOutcome ==
    /\ [](C32_OutcomeOfReturnedWait)
    /\ [][waitPc = "done" /\ waitPc' = "done" => waitResult' = waitResult]_vars

\* A wait with a deadline of one tick whose fetch returned a Failed snapshot
\* when the deadline had already elapsed: the outcome is ModelExecution.
C32_Witness ==
    /\ call = "wait"
    /\ waitPc = "done"
    /\ max_duration = SomeD(1)
    /\ now >= 1
    /\ TerminalServed
    /\ LastServed = "failed"
    /\ waitResult.err.kind = "ModelExecution"


(***************************************************************************)
(* File inputs added through the builder                                   *)
(***************************************************************************)

\* The file inputs given to the builder: bytes and a readable path.
BuilderFileInputs ==
    {FileInput("Path", "a.txt", <<>>, NoneS, NoneS),
     FileInput("Bytes", "", HelloWorld, NoneS, SomeS("text/plain"))}

BuilderInit == InitWith(MaxRetriesStatus)

BuilderNext ==
    \/ CreatePrediction
    \/ \E key \in FileKeys, file \in BuilderFileInputs : BuilderFileInput(key, file)
    \/ \E key \in FileKeys, file \in BuilderFileInputs, strategy \in Strategies :
          FileInputWithStrategy(key, file, strategy)
    \/ \E pending \in Orders(DOMAIN create.file_inputs) : Send(pending)
    \/ \E read \in Reads : ProcessFileInput(read)
    \/ \E o \in FileUploadOutcomes : UploadReturns(o)
    \/ FileUploaded
    \/ PostCreate
    \/ \E o \in ConfigOutcomes(callTimeout) : AttemptRetried(o)
    \/ RetryAfterDelay
    \/ \E o \in ConfigOutcomes(callTimeout) : RequestReturns(o)
    \/ Finish

BuilderSpec == BuilderInit /\ [][BuilderNext]_vars

\* The values the input of key can hold when file was encoded with strategy:
\* a data URL of the bytes or of what the path held, or the URL of the
\* uploaded file.
EncodedValues(file, strategy) ==
    IF strategy = "Base64DataUrl"
    THEN {encode_file_as_data_url(file, read).value : read \in {r \in Reads : r.ok}}
    ELSE {File.get.v}

\* C33: when create submits a request built with file_input_with_strategy
\* calls, the input of every key holds its file encoded with the strategy
\* given in the call that added it.
C33_EachFileWithItsOwnStrategy ==
    (call = "create" /\ create.pc = "posting")
    => \A key \in DOMAIN create.asked :
          create.body.input[key] \in EncodedValues(create.file_inputs[key], create.asked[key])

\* C33: every file of a submitted request is encoded with the strategy of
\* the last file_input_with_strategy call (or the default when there is none).
C33_AllFilesWithLastStrategy ==
    (call = "create" /\ create.pc = "posting")
    => \A key \in DOMAIN create.file_inputs :
          create.body.input[key] \in EncodedValues(create.file_inputs[key], create.strategy)


(***************************************************************************)
(* A file input that cannot be encoded ends create                         *)
(***************************************************************************)

\* The encoding of a file input of the running create has failed.
EncodingFailed ==
    /\ call = "create"
    /\ ~create.result.ok
    /\ create.result.err # NoError

\* The errors process_file_input can return for file_input under strategy,
\* given what an upload it made has returned.
EncodingErrors(file_input, strategy) ==
    IF strategy = "Base64DataUrl"
    THEN {encode_file_as_data_url(file_input, read).err : read \in {r \in Reads : ~r.ok}}
    ELSE IF file_input.tag = "Url"
    THEN {invalid_input("Cannot upload from URL - file must be local or bytes")}
    ELSE {invalid_input("File missing URL")}
         \cup (IF file_input.tag = "Path" THEN {FileReadError} ELSE {})
         \cup (IF upResult.ok THEN {} ELSE {upResult.err})

\* C34: when the encoding of a file input fails during create, create is
\* over with that error (InvalidInput, the File error of the read, or the
\* error of the upload), the POST /v1/predictions has not been sent and is
\* not sent afterwards, and the file inputs after the failed one are not
\* processed: they are still pending, nothing was read or uploaded for them
\* and the input map has no value for them or for the failed one.
C34_EncodingFailureEndsCreate ==
    /\ [](EncodingFailed =>
            LET key == Head(create.pending)
                done == DOMAIN create.file_inputs \ {create.pending[i] : i \in DOMAIN create.pending}
            IN  /\ create.pc = "done"
                /\ create.pending # <<>>
                /\ create.result.err \in EncodingErrors(create.file_inputs[key], create.strategy)
                /\ create.result.err.kind \in
                       {"InvalidInput", "File", "Api", "Auth", "Http", "HttpMiddleware"}
                /\ reqPc = "idle" /\ attempts = 0 /\ outcomes = <<>>
                /\ create.body.fields = {}
                /\ upPc # "inflight"
                /\ DOMAIN create.input = done \cup {"prompt"}
                /\ create.reads + create.uploads <= 2 * (Cardinality(done) + 1)
                /\ create.uploads <= Cardinality(done) + 1)
    /\ [][EncodingFailed => \/ (create' = create /\ reqPc' = "idle" /\ upPc' = upPc)
                            \/ (call' = "none" /\ create' = NoCreate)]_vars

\* The upload of the first of two file inputs failed: create returned the
\* error of the upload with the second one untouched.
C34_Witness ==
    /\ EncodingFailed
    /\ Len(create.pending) = 2
    /\ create.strategy = "Multipart"
    /\ create.uploads = 1
    /\ ~upResult.ok
    /\ create.result = StrErr(upResult.err)
    /\ DOMAIN create.input = {"prompt"}


(***************************************************************************)
(* A path that cannot be read                                              *)
(***************************************************************************)

\* process_file_input runs for a Path whose read fails, inline or with the
\* FilesApi the upload strategy needs.
UnreadablePathProcessed ==
    /\ create.pc = "files"
    /\ create.pending # <<>>
    /\ create.file_inputs[Head(create.pending)].tag = "Path"
    /\ create.strategy = "Multipart" => create.uploader
    /\ \E read \in Reads : ~read.ok /\ ProcessFileInput(read)

\* C35: a Path file input whose local file cannot be read fails with the
\* I/O error kind (File) under the inline and under the upload strategy, and
\* no HTTP request is sent for it: no upload is started and no attempt made.
C35_UnreadablePathIsFileError ==
    /\ [][UnreadablePathProcessed =>
            /\ create'.pc = "done"
            /\ ~create'.result.ok
            /\ create'.result.err.kind = "File"
            /\ create'.result = StrErr(FileReadError)
            /\ create'.reads = create.reads + 1
            /\ create'.uploads = create.uploads
            /\ upPc' = upPc /\ upPc' # "inflight"
            /\ upAttempts' = upAttempts
            /\ reqPc' = "idle" /\ attempts' = attempts]_vars
    /\ []((create.pc = "done" /\ ~create.result.ok /\ create.result.err.kind = "File")
            => /\ create.file_inputs[Head(create.pending)].tag = "Path"
               /\ create.reads >= 1
               /\ create.uploads <= Cardinality(DOMAIN create.file_inputs) - Len(create.pending)
               /\ upPc # "inflight"
               /\ reqPc = "idle")

\* process_file_input under the upload strategy, with an uploader, for a
\* path that could not be read: File error, nothing uploaded.
C35_Witness ==
    /\ create.op = "process_file_input"
    /\ create.pc = "done"
    /\ create.strategy = "Multipart"
    /\ create.uploader
    /\ create.file_inputs["file"].tag = "Path"
    /\ create.result.err.kind = "File"
    /\ create.reads = 1
    /\ create.uploads = 0
    /\ upAttempts = 0


(***************************************************************************)
(* Reconfiguring a handle                                                  *)
(***************************************************************************)

\* Sequences of clone and configure calls on both handles, with a request of
\* the first handle running across them.
ReconfigInit == ConfigInit

ReconfigNext ==
    \/ CloneClient
    \/ \E h \in Handles, retry \in RetryArgs, buildOk \in BOOLEAN :
          ConfigureRetriesAdvanced(h, retry.max_retries, retry.min_delay, retry.max_delay,
                                   retry.base_multiplier, buildOk)
    \/ \E h \in Handles, retry \in RetryArgs, buildOk \in BOOLEAN :
          ConfigureRetries(h, retry.max_retries, retry.min_delay, retry.max_delay, buildOk)
    \/ \E h \in Handles, timeout \in TimeoutArgs, buildOk \in BOOLEAN :
          ConfigureTimeouts(h, timeout.connect_timeout, timeout.request_timeout, buildOk)
    \/ StartRequest(Create)
    \/ RequestReturns(Response(404, NoPrediction, PlainText))
    \/ Finish

ReconfigSpec == ReconfigInit /\ [][ReconfigNext]_vars

\* A configure_retries_advanced or configure_timeouts call on a handle whose
\* rebuild of the client fails.
RebuildFails ==
    \/ \E h \in Handles, retry \in RetryArgs :
          ConfigureRetriesAdvanced(h, retry.max_retries, retry.min_delay, retry.max_delay,
                                   retry.base_multiplier, FALSE)
    \/ \E h \in Handles, timeout \in TimeoutArgs :
          ConfigureTimeouts(h, timeout.connect_timeout, timeout.request_timeout, FALSE)

\* C36: when the rebuild of the client fails during configure_retries_advanced
\* or configure_timeouts, the call returns the error and both handles are
\* exactly as before: same active client, same retry and timeout
\* configuration, and the calls running on them go on undisturbed.
C36_FailedRebuildChangesNothing ==
    [][RebuildFails =>
          /\ lastResult'.called /\ ~lastResult'.ok /\ ~lastResult'.panicked
          /\ lastResult'.err = HttpBuildError
          /\ client' = client
          /\ http_config' = http_config
          /\ clone' = clone
          /\ UNCHANGED <<api_token, base_url, reqVars, upVars>>]_vars

\* A configure call has failed while a request of the handle was in flight;
\* the handle still holds the non-default configuration it was built with.
C36_Witness ==
    /\ lastResult.called
    /\ ~lastResult.ok
    /\ lastResult.err = HttpBuildError
    /\ lastResult.during = "request"
    /\ http_config.retry.base_multiplier = 3
    /\ client = build_client_with_config(http_config)


\* A configure_retries or configure_retries_advanced call on handle h.
RetriesReconfigured(h) ==
    \E retry \in RetryArgs, buildOk \in BOOLEAN :
        \/ ConfigureRetriesAdvanced(h, retry.max_retries, retry.min_delay, retry.max_delay,
                                    retry.base_multiplier, buildOk)
        \/ ConfigureRetries(h, retry.max_retries, retry.min_delay, retry.max_delay, buildOk)

\* A configure_timeouts call on handle h.
TimeoutsReconfigured(h) ==
    \E timeout \in TimeoutArgs, buildOk \in BOOLEAN :
        ConfigureTimeouts(h, timeout.connect_timeout, timeout.request_timeout, buildOk)

\* The active client of handle h, told by the settings it was built with.
HandleClient(h) == IF h = "main" THEN client ELSE clone.client

\* C37: a configure_retries or configure_retries_advanced call leaves
\* connect_timeout and request_timeout of the handle as they were, a
\* configure_timeouts call leaves max_retries, min_delay, max_delay and
\* base_multiplier as they were, in the stored configuration and in the
\* active client, and neither changes the base URL or the API token; this
\* holds for every call of every sequence of calls.
C37_ReconfigureKeepsOtherHalf ==
    [][\A h \in Handles :
          /\ RetriesReconfigured(h) =>
                /\ HandleConfig(h)'.timeout = HandleConfig(h).timeout
                /\ HandleClient(h)'.timeout = HandleClient(h).timeout
          /\ TimeoutsReconfigured(h) =>
                /\ HandleConfig(h)'.retry = HandleConfig(h).retry
                /\ HandleClient(h)'.retry = HandleClient(h).retry
          /\ (RetriesReconfigured(h) \/ TimeoutsReconfigured(h)) =>
                /\ base_url' = base_url
                /\ api_token' = api_token]_vars

\* Two handles after a configure_timeouts call on one and a
\* configure_retries_advanced call on the other: each kept the half the call
\* on it did not name.
C37_Witness ==
    /\ clone.exists
    /\ lastResult.called /\ lastResult.ok
    /\ http_config.retry.base_multiplier = 3
    /\ clone.http_config.retry.base_multiplier = 2
    /\ clone.http_config.retry.min_delay = 2
    /\ http_config.timeout # clone.http_config.timeout
    /\ client = http_config


\* A three-argument configure_retries call on handle h.
ThreeArgumentCall(h) ==
    \E retry \in RetryArgs, buildOk \in BOOLEAN :
        ConfigureRetries(h, retry.max_retries, retry.min_delay, retry.max_delay, buildOk)

\* C38 as claimed: configure_retries(max_retries, min_delay, max_delay)
\* changes only those three fields, the base_multiplier the handle was
\* constructed or last configured with is still in effect afterwards.
C38_ConfigureRetriesKeepsMultiplier ==
    [][\A h \in Handles :
          ThreeArgumentCall(h) =>
              /\ HandleConfig(h)'.retry.base_multiplier = HandleConfig(h).retry.base_multiplier
              /\ HandleClient(h)'.retry.base_multiplier = HandleClient(h).retry.base_multiplier
              /\ HandleConfig(h)'.timeout = HandleConfig(h).timeout]_vars

\* C38: configure_retries(max_retries, min_delay, max_delay) that returns Ok
\* replaces the whole retry configuration of the handle, stored and active:
\* the three fields are the arguments and base_multiplier is 2, whatever it
\* was before; the timeouts stay, and a call whose build fails changes
\* nothing.
C38_ConfigureRetriesResetsMultiplier ==
    [][\A h \in Handles, retry \in RetryArgs, buildOk \in BOOLEAN :
          ConfigureRetries(h, retry.max_retries, retry.min_delay, retry.max_delay, buildOk) =>
              /\ HandleConfig(h)'.timeout = HandleConfig(h).timeout
              /\ HandleClient(h)' = build_client_with_config(HandleConfig(h)')
              /\ HandleConfig(h)'.retry =
                    IF buildOk
                    THEN RetryConfig(retry.max_retries, retry.min_delay, retry.max_delay, 2)
                    ELSE HandleConfig(h).retry]_vars

\* A handle built with base_multiplier 3 and then given new bounds by
\* configure_retries: its base_multiplier is 2. Only the three-argument call
\* yields min_delay 1 with base_multiplier 2.
C38_Witness ==
    /\ lastResult.called /\ lastResult.ok
    /\ http_config.retry.min_delay = 1
    /\ http_config.retry.max_delay = 2
    /\ http_config.retry.base_multiplier = 2
    /\ client.retry.base_multiplier = 2

====
